---- MODULE Spec2Model ----
(***************************************************************************)
(* Market-data synchronisation and caching engine of trading-dashboard:    *)
(* the CurveSeries client (date formatting, row normalisation), the        *)
(* MarketDataRepository (check-then-write upsert, bulk insert, range       *)
(* query), the DataSyncService (cache sufficiency, incremental tail,       *)
(* fetch-and-store) and the /api/curveseries/history handler.              *)
(*                                                                         *)
(* The specifications share the definitions below:                         *)
(*   Spec, SpecHistory, SpecFault, SpecSync, SpecSyncFair, SpecPrefetch    *)
(*             the requests of the API, two at a time, statement by        *)
(*             statement, against an upstream series that can change, a    *)
(*             wall clock that can be set back and tables that can be      *)
(*             dropped and created;                                        *)
(*   SpecRepo  one SQLAlchemy session running insert_data_packet and       *)
(*             bulk_insert statement by statement;                         *)
(*   SpecConc  two sessions running bulk_insert concurrently, their        *)
(*             SELECT / INSERT / UPDATE / COMMIT statements interleaved;   *)
(*   SpecQuery the queries of the repository over any table;               *)
(*   SpecNorm, SpecParse   the normalisation of rows and the parsing of    *)
(*             dates of the CurveSeries client;                            *)
(*   SpecProducer, SpecConsumer, SpecConsumerFair   the Redis stream.      *)
(***************************************************************************)
EXTENDS Integers, Sequences, FiniteSets

VARIABLES
    rows,       \* committed rows of table market_data, in table order
    sess,       \* per session: position in bulk_insert, uncommitted writes, objects
    written,    \* ghost: identity -> payload of the last packet written (SpecRepo)
    served,     \* the requests the API has taken so far
    upstream,   \* the CurveSeries series: day of the window -> value, 0 = no row
    reachable,  \* CurveSeries Desktop answers getCSData
    csEnabled,  \* settings.curveseries_enabled: DataSyncService has a cs_client
    tzAware,    \* the store hands back timezone-aware datetimes (timestamptz)
    tables,     \* the tables of Base.metadata exist (create_tables, drop_tables)
    lastSync,   \* data_sources row 'curveseries': NoRow, NullSync or a time
    now,        \* the wall clock, datetime.now()
    lastOp      \* the frames of the calls in progress, or the last operation

vars == <<rows, sess, written, served, upstream, reachable, csEnabled, tzAware, tables,
          lastSync, now, lastOp>>

----------------------------------------------------------------------------
(* Bounds of the model *)

\* the window holds days 0..MaxDay, counted from WindowStart
MaxDay == 1

\* longest batch handed to bulk_insert in SpecRepo and SpecConc
MaxBatch == 2

\* most rows the table may hold in SpecRepo and SpecConc
MaxRows == 3

----------------------------------------------------------------------------
(* Calendar: what datetime, strftime("%d-%b-%Y") and datetime(y, m, d) do *)

SecondsPerDay == 24 * 3600

\* the fixed month table of CurveSeriesClient.__init__
month_map == [Jan |-> 1, Feb |-> 2, Mar |-> 3, Apr |-> 4, May |-> 5, Jun |-> 6,
              Jul |-> 7, Aug |-> 8, Sep |-> 9, Oct |-> 10, Nov |-> 11, Dec |-> 12]

MonthAbbr == <<"Jan", "Feb", "Mar", "Apr", "May", "Jun",
               "Jul", "Aug", "Sep", "Oct", "Nov", "Dec">>

IsLeap(y) == (y % 4 = 0 /\ y % 100 # 0) \/ y % 400 = 0

DaysInMonth(y, m) ==
    IF m = 2 THEN (IF IsLeap(y) THEN 29 ELSE 28)
    ELSE IF m \in {4, 6, 9, 11} THEN 30 ELSE 31

\* proleptic Gregorian day number of y-m-d, days since 1970-01-01: the years
\* are counted from 1 March, so that the leap day ends the year
DayOfYear(m, d) == (153 * (IF m > 2 THEN m - 3 ELSE m + 9) + 2) \div 5 + d - 1
DaysBeforeYear(yy) == yy * 365 + yy \div 4 - yy \div 100 + yy \div 400
DaysFromCivil(y, m, d) ==
    DaysBeforeYear(IF m <= 2 THEN y - 1 ELSE y) + DayOfYear(m, d) - 719468

\* the inverse, <<year, month, day>> of a day number, in steps: the day of
\* the 400-year era, the year of the era, the day of the year, the month
CivilFromMonth(y0, doy, mp) ==
    <<y0 + (IF mp < 10 THEN 0 ELSE 1),
      IF mp < 10 THEN mp + 3 ELSE mp - 9,
      doy - (153 * mp + 2) \div 5 + 1>>
CivilFromDoy(y0, doy) == CivilFromMonth(y0, doy, (5 * doy + 2) \div 153)
CivilFromYoe(era, doe, yoe) ==
    CivilFromDoy(yoe + era * 400, doe - (365 * yoe + yoe \div 4 - yoe \div 100))
CivilFromDoe(era, doe) ==
    CivilFromYoe(era, doe,
                 (doe - doe \div 1460 + doe \div 36524 - doe \div 146096) \div 365)
CivilFromDays(z) == CivilFromDoe((z + 719468) \div 146097, (z + 719468) % 146097)

\* a datetime is its number of seconds since 1970-01-01 00:00:00
DateOf(t) == t \div SecondsPerDay
Midnight(dayno) == dayno * SecondsPerDay

\* the window of the model starts on 31-Dec-2025, so that it crosses a month
\* and a year
WindowStart == DaysFromCivil(2025, 12, 31)
Days == 0..MaxDay
DayTime(d, off) == Midnight(WindowStart + d) + off

\* instants a request or a packet may carry: midnight and noon of each day
Noon == 12 * 3600
Times == {DayTime(d, off) : d \in Days, off \in {0, Noon}}

----------------------------------------------------------------------------
(* Text: a date-like string is its '-'-separated fields before the first   *)
(* space, and whether a space and a time of day follow.  A field is a      *)
(* numeral or a word.                                                      *)

Num(n)  == [k |-> "num", n |-> n, w |-> ""]
Word(s) == [k |-> "word", n |-> 0, w |-> s]
Text(parts, tail) == [parts |-> parts, tail |-> tail]

\* CurveSeriesClient._format_date: strftime("%d-%b-%Y") drops the time of day
FormatCivil(c) == Text(<<Num(c[3]), Word(MonthAbbr[c[2]]), Num(c[1])>>, FALSE)
FormatDate(t) == FormatCivil(CivilFromDays(DateOf(t)))

\* the result of a parse that found no date
NoneTs == -1

\* variant: any day up to 31 is taken for any month
MakeDateAnyDay(year, month, day) ==
    IF year \in 1..9999 /\ month \in 1..12 /\ day \in 1..31
    THEN Midnight(DaysFromCivil(year, month, day))
    ELSE NoneTs

\* datetime(year, month, day): ValueError for a date the calendar has not
MakeDate(year, month, day) ==
    IF year \in 1..9999 /\ month \in 1..12 /\ day \in 1..DaysInMonth(year, month)
    THEN Midnight(DaysFromCivil(year, month, day))
    ELSE NoneTs

\* the tzinfo of a datetime built by datetime(...): aware when a tzinfo is
\* passed, naive otherwise
DatetimeTzinfo(tzinfo_given) == IF tzinfo_given THEN "aware" ELSE "naive"

\* _parse_custom_date returns datetime(year, month, day): no tzinfo is passed
ParsedTzinfo == DatetimeTzinfo(FALSE)

\* variant: the month is looked up in the table only
MonthOfTableOnly(field) ==
    IF field.k = "word" /\ field.w \in DOMAIN month_map THEN month_map[field.w] ELSE 0

\* month_map.get(month_str), and int(month_str) when the table has it not;
\* 0 stands for the ValueError of int()
MonthOf(field) ==
    IF field.k = "word"
    THEN (IF field.w \in DOMAIN month_map THEN month_map[field.w] ELSE 0)
    ELSE field.n

\* CurveSeriesClient._parse_custom_date: parts is
\* date_str.split(' ')[0].split('-'); any exception gives None
ParseParts(parts) ==
    IF Len(parts) # 3 THEN NoneTs
    ELSE IF parts[1].k # "num" \/ parts[3].k # "num" THEN NoneTs
    ELSE MakeDate(parts[3].n, MonthOf(parts[2]), parts[1].n)

ParseCustomDate(txt) == ParseParts(txt.parts)

----------------------------------------------------------------------------
(* Raw rows: what CSDataAPI.getCSData returns, and the normaliser *)

\* a cell of a raw row: a number, or a string given as its Text
NumCell(v)  == [kind |-> "num", num |-> v, txt |-> Text(<<>>, FALSE)]
StrCell(t)  == [kind |-> "str", num |-> 0, txt |-> t]

\* '-' in cell_val
HasDash(txt) == Len(txt.parts) >= 2

\* the column loop of fetch_history over one row, from column i on, with the
\* ts_obj and val found so far
RECURSIVE ScanRow(_, _, _, _)
ScanRow(row, i, ts_obj, val) ==
    IF i > Len(row) THEN [ts_obj |-> ts_obj, val |-> val]
    ELSE LET cell_val == row[i]
         IN  IF cell_val.kind = "num"
             THEN ScanRow(row, i + 1, ts_obj, cell_val.num)
             ELSE IF ts_obj = NoneTs /\ HasDash(cell_val.txt)
                  THEN ScanRow(row, i + 1, ParseCustomDate(cell_val.txt), val)
                  ELSE ScanRow(row, i + 1, ts_obj, val)

\* a key of a dict over the columns of a row: the number of the column, as
\* an int (FALSE) or as the string of its digits (TRUE)
Key(label, str) == [label |-> label, str |-> str]

\* row.to_dict() for a row of pd.DataFrame(raw_data), raw_data a list of
\* sequences: the columns are labelled 0, 1, ..., and the dict is the set of
\* its items
to_dict(row) == { <<Key(i - 1, FALSE), row[i]>> : i \in 1..Len(row) }

\* a dict written to a JSONB column and loaded again: the keys of a JSON
\* object are strings
JSONB(d) == { <<Key(item[1].label, TRUE), item[2]>> : item \in d }

\* StandardDataPacket, and the columns of a market_data row
Packet(source, ticker, timestamp, value, unit, raw_data, metadata) ==
    [source |-> source, ticker |-> ticker, timestamp |-> timestamp,
     value |-> value, unit |-> unit, raw_data |-> raw_data, metadata |-> metadata]

\* variant: a row without a timestamp gets the start of the window for one
EmitPacketDefaulted(equation, row, scan) ==
    <<Packet("curveseries", equation,
             IF scan.ts_obj = NoneTs THEN Midnight(WindowStart) ELSE scan.ts_obj,
             scan.val, "unit", to_dict(row), {})>>

\* variant: a row without a timestamp gets the time of the call for one
EmitPacketNow(equation, row, scan) ==
    <<Packet("curveseries", equation,
             IF scan.ts_obj = NoneTs THEN now ELSE scan.ts_obj,
             scan.val, "unit", to_dict(row), {})>>

\* the end of the row loop of fetch_history: a row without a timestamp is
\* skipped, any other gives one packet
EmitPacket(equation, row, scan) ==
    IF scan.ts_obj = NoneTs THEN <<>>
    ELSE <<Packet("curveseries", equation, scan.ts_obj, scan.val, "unit", to_dict(row), {})>>

\* variant: the list results is kept from one call to the next
CallFrameKeeping(frame, clock, start_date, end_date) ==
    [frame EXCEPT !.end_date = IF end_date = NoneTs THEN clock ELSE end_date,
                  !.start_date = IF start_date # NoneTs THEN start_date
                                 ELSE (IF end_date = NoneTs THEN clock ELSE end_date)
                                      - 30 * SecondsPerDay,
                  !.index = 1]

\* fetch_history up to the row loop, over the locals as they stand (frame):
\* a date the caller did not give is the time of the clock, or 30 days
\* before the end; results is the empty list, and the loop stands at the
\* first row
CallFrame(frame, clock, start_date, end_date) ==
    [frame EXCEPT !.end_date = IF end_date = NoneTs THEN clock ELSE end_date,
                  !.start_date = IF start_date # NoneTs THEN start_date
                                 ELSE (IF end_date = NoneTs THEN clock ELSE end_date)
                                      - 30 * SecondsPerDay,
                  !.results = <<>>,
                  !.index = 1]

\* variant: the first row without a timestamp ends the loop
RowFrameUntilBad(frame, equation, raw_data) ==
    [frame EXCEPT !.results = @ \o EmitPacket(equation, raw_data[frame.index],
                                              ScanRow(raw_data[frame.index], 1, NoneTs, 0)),
                  !.index = IF ScanRow(raw_data[frame.index], 1, NoneTs, 0).ts_obj = NoneTs
                            THEN Len(raw_data) + 1 ELSE @ + 1]

\* one pass of the body of the row loop of fetch_history, for the row at
\* frame.index: ts_obj and val start from None and 0.0, the columns are
\* scanned, and the packet of the row, if it has one, is appended to results
RowFrame(frame, equation, raw_data) ==
    [frame EXCEPT !.results = @ \o EmitPacket(equation, raw_data[frame.index],
                                              ScanRow(raw_data[frame.index], 1, NoneTs, 0)),
                  !.index = @ + 1]

\* the row loop of fetch_history from the frame on, and the list it returns
RECURSIVE RunRows(_, _, _)
RunRows(frame, equation, raw_data) ==
    IF frame.index > Len(raw_data) THEN frame.results
    ELSE RunRows(RowFrame(frame, equation, raw_data), equation, raw_data)

\* the row loop of fetch_history on the rows getCSData returned
NormalizeRows(equation, raw_data) ==
    RunRows([results |-> <<>>, index |-> 1], equation, raw_data)

\* the upstream service: the rows of the series dated from day number first
\* to day number last, both included, oldest first, each row the date as a
\* string with a time of day, then the value
SeriesRow(dayno, v) ==
    << <<StrCell([FormatDate(Midnight(dayno)) EXCEPT !.tail = TRUE]), NumCell(v)>> >>

RECURSIVE SeriesRows(_, _, _, _)
SeriesRows(up, d, first, last) ==
    IF d > MaxDay THEN <<>>
    ELSE (IF up[d] # 0 /\ first <= WindowStart + d /\ WindowStart + d <= last
          THEN SeriesRow(WindowStart + d, up[d]) ELSE <<>>)
         \o SeriesRows(up, d + 1, first, last)

\* CSDataAPI.getCSData(equation, s_str, e_str)
getCSData(up, equation, s_str, e_str) ==
    SeriesRows(up, 0, DateOf(ParseCustomDate(s_str)), DateOf(ParseCustomDate(e_str)))

\* the try block of fetch_history: an exception of getCSData gives []
FetchRows(up, reach, equation, s_str, e_str) ==
    [call    |-> [equation |-> equation, s_str |-> s_str, e_str |-> e_str],
     packets |-> IF reach
                 THEN NormalizeRows(equation, getCSData(up, equation, s_str, e_str))
                 ELSE <<>>]

\* CurveSeriesClient.fetch_history: the call made to the adapter and the
\* packets returned
fetch_history(up, reach, equation, start_date, end_date) ==
    FetchRows(up, reach, equation, FormatDate(start_date), FormatDate(end_date))

----------------------------------------------------------------------------
(* MarketDataRepository over a view: the rows a session sees, in table order *)

SameIdentity(r, p) ==
    r.source = p.source /\ r.ticker = p.ticker /\ r.timestamp = p.timestamp

\* variant: the SELECT of insert_data_packet never finds a row
FindExistingNone(view, packet) == {0}

\* session.query(MarketData).filter(source, ticker, timestamp).first():
\* the positions of the row it may return, 0 when no row matches; the query
\* has no ORDER BY, and of several matching rows the database returns any
FindExisting(view, packet) ==
    IF \E i \in 1..Len(view) : SameIdentity(view[i], packet)
    THEN {i \in 1..Len(view) : SameIdentity(view[i], packet)}
    ELSE {0}

\* the insert branch of insert_data_packet: the row of MarketData(...) as the
\* INSERT stores it
MarketData(packet) == [packet EXCEPT !.raw_data = JSONB(@)]

\* the update branch of insert_data_packet: the object after the four
\* assignments
UpdateExisting(existing, packet) ==
    [existing EXCEPT !.value = packet.value, !.unit = packet.unit,
                     !.metadata = packet.metadata, !.raw_data = packet.raw_data]

\* the orders in which n rows can be listed
Orders(n) == { p \in [1..n -> 1..n] : \A i, j \in 1..n : p[i] = p[j] => i = j }

\* ORDER BY timestamp ASC: the lists of the rows of s by ascending timestamp;
\* the database puts rows of equal timestamp in an order of its own
OrderByTimestamp(s) ==
    { [i \in 1..Len(s) |-> s[p[i]]] :
        p \in { q \in Orders(Len(s)) :
                    \A i, j \in 1..Len(s) :
                        i < j => s[q[i]].timestamp <= s[q[j]].timestamp } }

\* variant: the upper bound of the range is excluded
MatchesBeforeEnd(r, ticker, start_date, end_date, source) ==
    /\ r.ticker = ticker
    /\ r.timestamp >= start_date
    /\ r.timestamp < end_date
    /\ (source # "" => r.source = source)

\* the filter of query_history; source "" stands for None (not filtered)
Matches(r, ticker, start_date, end_date, source) ==
    /\ r.ticker = ticker
    /\ r.timestamp >= start_date
    /\ r.timestamp <= end_date
    /\ (source # "" => r.source = source)

\* MarketDataRepository.query_history: the lists it can return
query_history(view, ticker, start_date, end_date, source) ==
    OrderByTimestamp(SelectSeq(view,
        LAMBDA r : Matches(r, ticker, start_date, end_date, source)))

\* the conversion of query_history_as_packets: an empty unit reads as "unit"
AsPacket(db_data) ==
    Packet(db_data.source, db_data.ticker, db_data.timestamp, db_data.value,
           IF db_data.unit = "" THEN "unit" ELSE db_data.unit,
           db_data.raw_data, db_data.metadata)

AsPackets(db_results) == [i \in 1..Len(db_results) |-> AsPacket(db_results[i])]

\* MarketDataRepository.query_history_as_packets: the lists it can return
query_history_as_packets(view, ticker, start_date, end_date, source) ==
    { AsPackets(db_results) :
        db_results \in query_history(view, ticker, start_date, end_date, source) }

Larger(a, b) == IF a >= b THEN a ELSE b

\* max(d.timestamp for d in existing_data) of a non-empty list
RECURSIVE MaxTimestamp(_)
MaxTimestamp(existing_data) ==
    IF Len(existing_data) = 1 THEN existing_data[1].timestamp
    ELSE Larger(Head(existing_data).timestamp, MaxTimestamp(Tail(existing_data)))

\* lastOp where no operation is recorded
EnvRecord(op) == [op |-> op]

----------------------------------------------------------------------------
(* Sessions.  Each request has a session of its own (get_db); the sessions  *)
(* of SpecRepo and SpecConc run bulk_insert.  A session reads the committed *)
(* rows and its own uncommitted writes (READ COMMITTED) and nothing of what *)
(* another session has not committed.  Its identity map refers weakly to   *)
(* the objects it has loaded: an object the program still holds keeps the   *)
(* attributes it was loaded with until the session commits                  *)
(* (expire_on_commit) or is closed, any other is loaded again by the next   *)
(* SELECT that finds its row.                                               *)

\* the formula every request of the model asks for
Equation == "Brent_Crude_Futures_c1.Close"

Values == {1, 2}

Sessions == {1, 2}

\* found: 0 when the SELECT of insert_data_packet found nothing, i for the
\* committed row i, -k for the k-th row the session has inserted itself;
\* obj: the object the SELECT returned, if any; upd: the session's
\* uncommitted UPDATEs by row, ins: its uncommitted INSERTs; seen: the
\* objects the caller of bulk_insert holds (existing_data), by row
IdleSession == [pc |-> "idle", batch |-> <<>>, found |-> 0, obj |-> <<>>,
                ins |-> <<>>, upd |-> <<>>, seen |-> <<>>, bulk |-> FALSE,
                done |-> 0, failed |-> FALSE, carried |-> FALSE]

\* the packets handed to the repository: three identities, two payloads each
RepoIdentities ==
    { [source |-> "curveseries", ticker |-> Equation, timestamp |-> DayTime(0, 0)],
      [source |-> "curveseries", ticker |-> Equation, timestamp |-> DayTime(1, 0)],
      [source |-> "binance",     ticker |-> Equation, timestamp |-> DayTime(0, 0)] }

\* the raw payload of the first is a dict with a string key, as a JSON reply
\* gives it, that of the second a dict with an int key, as to_dict gives it
RepoPackets ==
    { Packet(id.source, id.ticker, id.timestamp, 1, "unit",
             JSONB(to_dict(<<NumCell(1)>>)), {}) : id \in RepoIdentities }
    \cup
    { Packet(id.source, id.ticker, id.timestamp, 2, "bbl",
             to_dict(<<NumCell(2)>>), {"test"}) : id \in RepoIdentities }

\* committed row i as the statements of a session with state ss read it
DbRow(ss, rws, i) == IF i \in DOMAIN ss.upd THEN ss.upd[i] ELSE rws[i]

\* what a SELECT of the session ranges over: the committed rows with the
\* session's pending UPDATEs applied, followed by its pending INSERTs
ViewOf(ss, rws) == [i \in 1..Len(rws) |-> DbRow(ss, rws, i)] \o ss.ins

View(s) == ViewOf(sess[s], rows)

\* the object a SELECT of the session returns for the row at position pos of
\* its view: the one the program holds, else the row as the view has it
ObjectAt(ss, rws, pos) ==
    IF pos \in DOMAIN ss.seen THEN ss.seen[pos] ELSE ViewOf(ss, rws)[pos]

\* the object for the row at position pos of the view, the table holding n
\* committed rows
ObjectKey(pos, n) == IF pos <= n THEN pos ELSE n - pos

Pending(s) == sess[s].ins # <<>> \/ DOMAIN sess[s].upd # {}

\* rows the table would hold if every session committed
TotalRows == Len(rows) + Len(sess[1].ins) + Len(sess[2].ins)

\* the repository touches neither the upstream nor the service's surroundings
RepoUnchanged == UNCHANGED <<served, upstream, reachable, csEnabled, tzAware, tables, lastSync, now, lastOp>>

\* bulk_insert(packets) begins on a session with state ss
BulkBegun(ss, packets) ==
    [ss EXCEPT !.pc = "check", !.batch = packets, !.bulk = TRUE, !.done = 0,
               !.carried = ss.ins # <<>> \/ DOMAIN ss.upd # {}]

\* bulk_insert(packets) is called on session s; carried marks a batch that
\* begins in a transaction that already holds flushed writes
BeginBulk(s, packets) ==
    /\ sess[s].pc = "idle"
    /\ TotalRows + Len(packets) <= MaxRows
    /\ sess' = [sess EXCEPT ![s] = BulkBegun(sess[s], packets)]
    /\ UNCHANGED <<rows, written>>
    /\ RepoUnchanged

\* insert_data_packet(packet) is called on session s by itself
BeginInsert(s, packet) ==
    /\ sess[s].pc = "idle"
    /\ TotalRows + 1 <= MaxRows
    /\ sess' = [sess EXCEPT ![s].pc = "check", ![s].batch = <<packet>>, ![s].bulk = FALSE,
                            ![s].done = 0]
    /\ UNCHANGED <<rows, written>>
    /\ RepoUnchanged

\* insert_data_packet, the SELECT: existing = query.filter(...).first() gave
\* the row at position pos of the view, or nothing (pos = 0)
Checked(ss, rws, pos) ==
    [ss EXCEPT !.pc = "write",
               !.found = IF pos = 0 THEN 0 ELSE ObjectKey(pos, Len(rws)),
               !.obj = IF pos = 0 THEN <<>> ELSE <<ObjectAt(ss, rws, pos)>>]

CheckExisting(s) ==
    /\ sess[s].pc = "check"
    /\ \E pos \in FindExisting(View(s), Head(sess[s].batch)) :
            sess' = [sess EXCEPT ![s] = Checked(sess[s], rows, pos)]
    /\ UNCHANGED <<rows, written>>
    /\ RepoUnchanged

\* the session's position after the write of one packet
AfterWrite(ss) ==
    [ss EXCEPT !.batch = Tail(ss.batch),
               !.found = 0,
               !.obj = <<>>,
               !.done = ss.done + 1,
               !.pc = IF Tail(ss.batch) # <<>> THEN "check"
                      ELSE IF ss.bulk THEN "commit" ELSE "idle"]

\* the four attributes insert_data_packet assigns are those the object has:
\* raw_data as the object carries it, which is the JSON object of the column
\* for an object loaded from the table
SamePayload(existing, packet) ==
    /\ existing.value = packet.value
    /\ existing.unit = packet.unit
    /\ existing.metadata = packet.metadata
    /\ existing.raw_data = packet.raw_data

\* the UPDATE of the flush: it sets the columns whose attribute has changed
\* and leaves the others as the row holds them
UpdateChanged(row, existing, packet) ==
    [row EXCEPT !.value    = IF existing.value # packet.value THEN packet.value ELSE @,
                !.unit     = IF existing.unit # packet.unit THEN packet.unit ELSE @,
                !.metadata = IF existing.metadata # packet.metadata THEN packet.metadata ELSE @,
                !.raw_data = IF existing.raw_data # packet.raw_data
                             THEN JSONB(packet.raw_data) ELSE @]

\* the flush of insert_data_packet emits an UPDATE of committed row i
Updates(ss) == ss.found > 0 /\ ~SamePayload(ss.obj[1], Head(ss.batch))

\* the objects held after the object of row i was assigned the packet
Assigned(seen, i, packet) ==
    [j \in DOMAIN seen |-> IF j = i THEN UpdateExisting(seen[j], packet) ELSE seen[j]]

\* insert_data_packet after the SELECT, up to the flush: an INSERT when
\* nothing was found, else the attributes of the object found are assigned,
\* and an UPDATE is emitted when one of them has changed
Flushed(ss, rws) ==
    IF ss.found = 0 THEN [ss EXCEPT !.ins = Append(@, MarketData(Head(ss.batch)))]
    ELSE IF ss.found < 0
    THEN [ss EXCEPT !.ins[-ss.found] = UpdateChanged(@, ss.obj[1], Head(ss.batch))]
    ELSE IF ~Updates(ss) THEN ss
    ELSE [ss EXCEPT !.upd = [j \in DOMAIN ss.upd \cup {ss.found} |->
                                IF j = ss.found
                                THEN UpdateChanged(DbRow(ss, rws, j), ss.obj[1],
                                                   Head(ss.batch))
                                ELSE ss.upd[j]],
                    !.seen = Assigned(ss.seen, ss.found, Head(ss.batch))]

\* a committed row is locked by the session that has updated it and not committed
LockedByOther(s, i) == \E o \in Sessions \ {s} : i \in DOMAIN sess[o].upd

\* the UPDATE of session s waits for the lock of its row
WaitsForLock(s) == Updates(sess[s]) /\ LockedByOther(s, sess[s].found)

\* insert_data_packet, the write and its flush
WritePacket(s) ==
    /\ sess[s].pc = "write"
    /\ ~WaitsForLock(s)
    /\ sess' = [sess EXCEPT ![s] = AfterWrite(Flushed(sess[s], rows))]
    /\ written' = {w \in written : ~SameIdentity(w, Head(sess[s].batch))}
                  \cup {Head(sess[s].batch)}
    /\ UNCHANGED rows
    /\ RepoUnchanged

\* variant: the commit replaces the table by the rows of the batch
CommittedReplacing(ss, rws) == ss.ins

\* the table after the COMMIT of the session: its UPDATEs applied, its
\* INSERTs appended
Committed(ss, rws) == ViewOf(ss, rws)

\* bulk_insert, self.session.commit()
Commit(s) ==
    /\ sess[s].pc = "commit"
    /\ rows' = Committed(sess[s], rows)
    /\ sess' = [sess EXCEPT ![s] = IdleSession]
    /\ UNCHANGED written
    /\ RepoUnchanged

\* bulk_insert ends with an exception of the database (the SELECT, the flush
\* or the COMMIT fails): the transaction is rolled back, and the session
\* refuses every statement until it is rolled back or closed
InvalidSession == [IdleSession EXCEPT !.pc = "invalid"]

FailStorage(s) ==
    /\ sess[s].bulk
    /\ sess[s].pc \in {"check", "write", "commit"}
    /\ sess' = [sess EXCEPT ![s] = InvalidSession]
    /\ written' = {w \in written : \E i \in 1..Len(rows) : rows[i] = MarketData(w)}
    /\ UNCHANGED rows
    /\ RepoUnchanged

\* bulk_insert ends with an exception raised outside the database, between
\* two packets (an element of the list that has no .source): bulk_insert has
\* no except clause and no rollback, the session keeps what the batch has
\* flushed so far; failed marks a session that holds such writes
FailOther(s) ==
    /\ sess[s].bulk
    /\ sess[s].pc = "check"
    /\ sess' = [sess EXCEPT ![s].pc = "idle", ![s].batch = <<>>, ![s].bulk = FALSE,
                            ![s].failed = sess[s].failed \/ sess[s].done > 0,
                            ![s].done = 0, ![s].carried = FALSE]
    /\ UNCHANGED <<rows, written>>
    /\ RepoUnchanged

\* the finally clause of Database.get_db, and that of Database.get_session
\* after its except clause has rolled back: session.close() drops what was
\* not committed
Close(s) ==
    /\ sess[s].pc \in {"idle", "invalid"}
    /\ sess[s] # IdleSession
    /\ sess' = [sess EXCEPT ![s] = IdleSession]
    /\ written' = {w \in written : \E i \in 1..Len(rows) : rows[i] = MarketData(w)}
    /\ UNCHANGED rows
    /\ RepoUnchanged

\* Database.get_session, the end of the with block without an exception:
\* session.commit() persists what the calls made in the block have flushed,
\* then the session is closed
ExitSession(s) ==
    /\ sess[s].pc = "idle"
    /\ sess[s] # IdleSession
    /\ rows' = Committed(sess[s], rows)
    /\ sess' = [sess EXCEPT ![s] = IdleSession]
    /\ UNCHANGED written
    /\ RepoUnchanged

RepoInit ==
    /\ rows = <<>>
    /\ sess = [s \in Sessions |-> IdleSession]
    /\ written = {}
    /\ served = 0
    /\ upstream = [d \in Days |-> 0]
    /\ reachable = TRUE
    /\ csEnabled = TRUE
    /\ tzAware = FALSE
    /\ tables = TRUE
    /\ lastSync = [exists |-> TRUE, last_sync |-> 0]
    /\ now = DayTime(0, 0)
    /\ lastOp = EnvRecord("env")

SessionStep(s, packetSet) ==
    \/ \E n \in 1..MaxBatch : \E packets \in [1..n -> packetSet] : BeginBulk(s, packets)
    \/ \E packet \in packetSet : BeginInsert(s, packet)
    \/ CheckExisting(s)
    \/ WritePacket(s)
    \/ Commit(s)
    \/ FailStorage(s)
    \/ FailOther(s)
    \/ Close(s)
    \/ ExitSession(s)

RepoNext == SessionStep(1, RepoPackets)

SpecRepo == RepoInit /\ [][RepoNext]_vars

\* two sessions write the same two identities; the value tells the writer
ConcPackets(s) ==
    { Packet("curveseries", Equation, DayTime(d, 0), s, "unit", {}, {}) : d \in {0, 1} }

ConcNext == \E s \in Sessions : SessionStep(s, ConcPackets(s))

SpecConc == RepoInit /\ [][ConcNext]_vars

----------------------------------------------------------------------------
(* Spec: the requests of the API.  The handlers are plain functions, which  *)
(* FastAPI runs in a pool of threads, each request with a session of its    *)
(* own: two requests run at a time, and each goes statement by statement,   *)
(* one round trip to the database or one call of the adapter per step,      *)
(* while the other request, the upstream and the clock move in between.     *)
(* lastOp[s] is the frame of the request on session s: its arguments, where *)
(* it stands (pc), what it has read, fetched and answered.                  *)

\* where the database has failed during a call, if it has: in bulk_insert (a
\* statement or its commit), in update_last_sync (its SELECT, its UPDATE or
\* its commit) or in a SELECT of query_history (the table is not there)
Faults == {"none", "bulk_insert", "update_last_sync", "query_history"}

\* most requests the API serves in a behaviour
MaxCalls == 2

\* first: the packets of the first read of get_data_from_db; sync_start: the
\* start_date of the fetch; txn: the session has a transaction open;
\* flushed: the transaction holds the UPDATE of the data_sources row; client:
\* the service has its cs_client; forced: the call stands in the forced sync
\* of the handler; log: what the sync of each ticker of a prefetch did.
\* Ghosts: pre, the cached packets of the range when the call began, in
\* table order; dropped, the tables were missing at some time since; alone,
\* no one else has changed the store, the upstream or the clock since; again,
\* the call repeats the call before it, which returned prevResult and left
\* prevRows rows
NoCall ==
    [op |-> "idle", pc |-> "idle", tickers |-> <<>>, i |-> 0, start |-> 0, end |-> 0,
     source |-> "", force |-> FALSE, forced |-> FALSE, fault |-> "none",
     client |-> FALSE, pre |-> <<>>, first |-> <<>>, sync_start |-> 0,
     adapter |-> "", packets |-> <<>>, calls |-> <<>>, count |-> 0, sync_time |-> 0,
     result |-> <<>>, exc |-> "", ok |-> FALSE, txn |-> FALSE, flushed |-> FALSE,
     log |-> <<>>,
     again |-> FALSE, prevResult |-> <<>>, prevRows |-> 0, alone |-> TRUE,
     dropped |-> FALSE]

\* the ticker the call is about: of a prefetch, the one the loop stands at
Ticker(f) == f.tickers[f.i]

\* the frames after a step of session s that leaves its call in frame f;
\* changed: the step has changed the store, of which the ghost of the other
\* call takes note
Frames(s, f, changed) ==
    [o \in Sessions |->
        IF o = s THEN f
        ELSE IF changed /\ lastOp[o].op # "idle" THEN [lastOp[o] EXCEPT !.alone = FALSE]
        ELSE lastOp[o]]

\* the frames after a step of the surroundings
Disturbed ==
    [o \in Sessions |->
        IF lastOp[o].op # "idle" THEN [lastOp[o] EXCEPT !.alone = FALSE] ELSE lastOp[o]]

\* the call has ended: result is what it returned, exc the exception it
\* ended with or the status of the answer
Done(f, result, exc) == [f EXCEPT !.pc = "done", !.result = result, !.exc = exc]

\* get_data_from_db returns packets; the handler answers 404 for none
GetReturned(f, packets) ==
    IF f.op = "history" THEN Done(f, packets, IF packets = <<>> THEN "404" ELSE "200")
    ELSE Done(f, packets, "")

\* what the loop of prefetch_common_tickers notes of the sync of a ticker
LogEntry(f, exc) ==
    [ticker |-> Ticker(f), calls |-> f.calls, exc |-> exc, failed |-> exc = "StorageError"]

\* prefetch_common_tickers, the end of the body of the loop: the exception,
\* if any, is printed and dropped, and the loop goes on with the next ticker
NextTicker(f, exc) ==
    IF f.i < Len(f.tickers)
    THEN [f EXCEPT !.log = Append(@, LogEntry(f, exc)), !.i = f.i + 1, !.pc = "existing",
                   !.calls = <<>>, !.packets = <<>>, !.count = 0]
    ELSE Done([f EXCEPT !.log = Append(@, LogEntry(f, exc))], <<>>, exc)

\* sync_curveseries_data raises exc: the handler answers 500 for its forced
\* sync, get_data_from_db prints it and returns its first read
SyncRaised(f, exc) ==
    IF f.op = "prefetch" THEN NextTicker(f, exc)
    ELSE IF f.forced THEN Done(f, <<>>, "500")
    ELSE GetReturned(f, f.first)

\* sync_curveseries_data returns count
SyncReturned(f, count) ==
    IF f.op = "prefetch" THEN NextTicker([f EXCEPT !.count = count], "")
    ELSE IF f.forced THEN [f EXCEPT !.pc = "read", !.forced = FALSE, !.count = count]
    ELSE [f EXCEPT !.pc = "reread", !.count = count]

\* the call fetch_history makes to the adapter
AdapterCallOf(equation, start_date, end_date) ==
    [equation |-> equation, s_str |-> FormatDate(start_date), e_str |-> FormatDate(end_date)]

\* the call of getCSData the frame waits for
PendingCall(f) == f.calls[Len(f.calls)]

\* sync_curveseries_data calls fetch_history(equation, start_date, end_date):
\* getCSData is called, the reply is awaited
EnterFetch(f, start_date) ==
    [f EXCEPT !.pc = "fetching", !.sync_start = start_date, !.adapter = "waits",
              !.calls = Append(@, AdapterCallOf(Ticker(f), start_date, f.end))]

\* variant: force_refresh is not looked at
EnterSyncUnforced(f, force_refresh) ==
    IF ~f.client THEN SyncRaised(f, "NoClient")
    ELSE [f EXCEPT !.pc = "existing"]

\* sync_curveseries_data up to its first statement or call
EnterSync(f, force_refresh) ==
    IF ~f.client THEN SyncRaised(f, "NoClient")
    ELSE IF force_refresh THEN EnterFetch(f, f.start)
    ELSE [f EXCEPT !.pc = "existing"]

\* a call begins: end_date = datetime.now(), start_date = end_date - days
StartDate(days) == now - days * SecondsPerDay

NewCall(op, tickers, start_date, end_date, source, force_refresh) ==
    [NoCall EXCEPT !.op = op, !.tickers = tickers, !.i = 1, !.start = start_date,
                   !.end = end_date, !.source = source, !.force = force_refresh,
                   !.client = csEnabled, !.dropped = ~tables,
                   !.pre = AsPackets(SelectSeq(rows,
                               LAMBDA r : Matches(r, tickers[1], start_date, end_date,
                                                  source)))]

\* the call that has just returned on the other session is the same call,
\* and nothing has happened since it began
SameCall(prev, f) ==
    /\ prev.pc = "done" /\ prev.alone
    /\ prev.op = f.op /\ f.op \in {"get", "history"}
    /\ prev.fault = "none"
    /\ prev.start = f.start /\ prev.end = f.end
    /\ prev.source = f.source /\ prev.force = f.force

Repeated(s, f) ==
    IF \E o \in Sessions \ {s} : SameCall(lastOp[o], f)
    THEN [f EXCEPT !.again = TRUE,
                   !.prevResult = lastOp[CHOOSE o \in Sessions \ {s} :
                                            SameCall(lastOp[o], f)].result,
                   !.prevRows = Len(rows)]
    ELSE f

\* no request runs on session s
Free(s) == lastOp[s].op = "idle" /\ sess[s] = IdleSession

\* a request can begin, and s is the session it gets: the sessions are made
\* by SessionLocal() one like the other, and the model numbers them so that a
\* request has the first that is free
CanCall(s) ==
    /\ served < MaxCalls
    /\ Free(s)
    /\ \A o \in Sessions : o < s => ~Free(o)

\* what a step of a call leaves alone besides the store and the sessions
CallOnly == UNCHANGED <<written, upstream, reachable, csEnabled, tzAware, tables, now>>

\* a step of the call on session s that leaves the store and the session
\* alone and the call in frame f
FrameStep(s, f) ==
    /\ lastOp' = Frames(s, f, FALSE)
    /\ UNCHANGED <<rows, lastSync, sess, served>>
    /\ CallOnly

\* session s takes a call, which begins in frame f
Begin(s, f) ==
    /\ CanCall(s)
    /\ served' = served + 1
    /\ lastOp' = Frames(s, f, FALSE)
    /\ UNCHANGED <<rows, lastSync, sess>>
    /\ CallOnly

\* GET /api/curveseries/history?equation=..&days=..&force_refresh=..
HistoryRequest(s, days, force_refresh) ==
    /\ Begin(s,
          IF force_refresh
          THEN EnterSync([Repeated(s, NewCall("history", <<Equation>>, StartDate(days), now,
                                              "curveseries", TRUE))
                            EXCEPT !.forced = TRUE], TRUE)
          ELSE [Repeated(s, NewCall("history", <<Equation>>, StartDate(days), now,
                                    "curveseries", FALSE))
                  EXCEPT !.pc = "read"])

\* DataSyncService.get_data_from_db called for the range that ends now
GetDataFromDb(s, days, source) ==
    /\ Begin(s, [Repeated(s, NewCall("get", <<Equation>>, StartDate(days), now, source, FALSE))
                       EXCEPT !.pc = "read"])

\* prefetch_common_tickers when the service has no cs_client: the sync of
\* every ticker raises before its first statement
PrefetchedWithoutClient(f) ==
    Done([f EXCEPT !.i = Len(f.tickers),
                   !.log = [k \in 1..Len(f.tickers) |->
                               [ticker |-> f.tickers[k], calls |-> <<>>,
                                exc |-> "NoClient", failed |-> FALSE]]],
         <<>>, "NoClient")

\* POST /api/sync/prefetch: prefetch_common_tickers(tickers, days)
Prefetch(s, tickers, days) ==
    /\ Begin(s,
          IF csEnabled
          THEN EnterSync(NewCall("prefetch", tickers, StartDate(days), now, "curveseries", FALSE), FALSE)
          ELSE PrefetchedWithoutClient(NewCall("prefetch", tickers, StartDate(days), now,
                                               "curveseries", FALSE)))

\* variant: the source asked for is not looked at
AfterFirstReadAnySource(f, packets) ==
    IF packets = <<>> /\ f.client
    THEN EnterSync([f EXCEPT !.first = packets], FALSE)
    ELSE GetReturned([f EXCEPT !.first = packets], packets)

\* get_data_from_db after its first read gave packets
AfterFirstRead(f, packets) ==
    IF packets = <<>> /\ f.source \in {"curveseries", ""} /\ f.client
    THEN EnterSync([f EXCEPT !.first = packets], FALSE)
    ELSE GetReturned([f EXCEPT !.first = packets], packets)

\* the first read of get_data_from_db raises: get_data_from_db has no except
\* clause around it, the handler answers 500
FirstReadRaised(f) ==
    Done([f EXCEPT !.fault = "query_history"], <<>>,
         IF f.op = "history" THEN "500" ELSE "StorageError")

\* a step of the call on session s in which a statement finds no table: the
\* database raises, the transaction is over, the call goes on in frame f
StatementRaised(s, f) ==
    /\ lastOp' = Frames(s, f, FALSE)
    /\ sess' = [sess EXCEPT ![s] = InvalidSession]
    /\ UNCHANGED <<rows, lastSync, served>>
    /\ CallOnly

\* get_data_from_db, the first read: a SELECT, which begins a transaction
ReadCache(s) ==
    /\ lastOp[s].pc = "read"
    /\ IF tables
       THEN \E packets \in query_history_as_packets(View(s), Ticker(lastOp[s]),
                                lastOp[s].start, lastOp[s].end, lastOp[s].source) :
                FrameStep(s, AfterFirstRead([lastOp[s] EXCEPT !.txn = TRUE], packets))
       ELSE StatementRaised(s, FirstReadRaised(lastOp[s]))

\* variant: latest > end_date
AfterExistingStrict(f, existing_data, aware) ==
    IF existing_data = <<>> THEN EnterFetch(f, f.start)
    ELSE IF aware THEN SyncRaised(f, "TypeError")
    ELSE IF MaxTimestamp(existing_data) > f.end THEN SyncReturned(f, 0)
    ELSE EnterFetch(f, MaxTimestamp(existing_data) + 1)

\* sync_curveseries_data after its SELECT gave existing_data: latest is a
\* datetime of the store, aware when the column is a timestamptz, end_date
\* is naive, and Python does not compare the two
AfterExisting(f, existing_data, aware) ==
    IF existing_data = <<>> THEN EnterFetch(f, f.start)
    ELSE IF aware THEN SyncRaised(f, "TypeError")
    ELSE IF MaxTimestamp(existing_data) >= f.end THEN SyncReturned(f, 0)
    ELSE EnterFetch(f, MaxTimestamp(existing_data) + 1)

\* the objects of existing_data, by row, which sync_curveseries_data holds
\* while it fetches and stores
Held(rws, ticker, start_date, end_date) ==
    [i \in {j \in 1..Len(rws) : Matches(rws[j], ticker, start_date, end_date, "curveseries")}
        |-> rws[i]]

\* sync_curveseries_data, not forced: the SELECT of the cached rows of the
\* range, which begins a transaction when none is open; a session whose
\* transaction a database error has ended refuses the statement
ReadExisting(s) ==
    /\ lastOp[s].pc = "existing"
    /\ IF sess[s].pc = "invalid"
       THEN FrameStep(s, SyncRaised(lastOp[s], "PendingRollbackError"))
       ELSE IF ~tables
       THEN StatementRaised(s, SyncRaised([lastOp[s] EXCEPT !.fault = "query_history"],
                                          "StorageError"))
       ELSE /\ \E existing_data \in query_history(View(s), Ticker(lastOp[s]),
                                        lastOp[s].start, lastOp[s].end, "curveseries") :
                    lastOp' = Frames(s, AfterExisting([lastOp[s] EXCEPT !.txn = TRUE],
                                                      existing_data, tzAware), FALSE)
            /\ sess' = [sess EXCEPT ![s].seen =
                            IF lastOp'[s].pc = "fetching"
                            THEN Held(rows, Ticker(lastOp[s]), lastOp[s].start, lastOp[s].end)
                            ELSE @]
            /\ UNCHANGED <<rows, lastSync, served>>
            /\ CallOnly

\* the reply of getCSData never comes
AdapterHangs(s) ==
    /\ lastOp[s].pc \in {"fetching", "probing"}
    /\ lastOp[s].adapter = "waits"
    /\ FrameStep(s, [lastOp[s] EXCEPT !.adapter = "hangs"])

\* variant: a fetch that gave no packets goes on to update_last_sync
AfterFetchAlwaysUpdate(f, packets) ==
    IF packets = <<>> THEN [f EXCEPT !.pc = "update"]
    ELSE [f EXCEPT !.pc = "store", !.packets = packets]

\* sync_curveseries_data after fetch_history returned packets
AfterFetch(f, packets) ==
    IF packets = <<>> THEN SyncReturned(f, 0)
    ELSE [f EXCEPT !.pc = "store", !.packets = packets]

\* what getCSData did with the request
Replied(reach) == IF reach THEN "answers" ELSE "raises"

\* fetch_history: getCSData returns the rows the series has now, or raises;
\* with packets, bulk_insert begins
EndFetch(s) ==
    /\ lastOp[s].pc = "fetching"
    /\ lastOp[s].adapter = "waits"
    /\ lastOp' = Frames(s,
          AfterFetch([lastOp[s] EXCEPT !.adapter = Replied(reachable)],
                     FetchRows(upstream, reachable, PendingCall(lastOp[s]).equation,
                               PendingCall(lastOp[s]).s_str,
                               PendingCall(lastOp[s]).e_str).packets),
          FALSE)
    /\ sess' = [sess EXCEPT ![s] =
                    IF lastOp'[s].pc = "store" THEN BulkBegun(@, lastOp'[s].packets)
                    ELSE [@ EXCEPT !.seen = <<>>]]
    /\ UNCHANGED <<rows, lastSync, served>>
    /\ CallOnly

\* the call stands in bulk_insert and the database does not fail now
Storing(s, pc) ==
    /\ lastOp[s].pc = "store"
    /\ sess[s].pc = pc

\* variant: the sync goes on to update_last_sync after bulk_insert raised
AfterStoreFailureUpdating(f, fault) ==
    IF fault = "bulk_insert"
    THEN [f EXCEPT !.pc = "update", !.txn = FALSE, !.flushed = FALSE, !.fault = fault]
    ELSE SyncRaised([f EXCEPT !.txn = FALSE, !.flushed = FALSE, !.fault = fault],
                    "StorageError")

\* sync_curveseries_data after bulk_insert or update_last_sync raised: it
\* has no except clause
AfterStoreFailure(f, fault) ==
    SyncRaised([f EXCEPT !.txn = FALSE, !.flushed = FALSE, !.fault = fault], "StorageError")

\* bulk_insert, insert_data_packet: the SELECT of the row of the packet
StoreCheck(s) ==
    /\ Storing(s, "check")
    /\ IF tables
       THEN /\ \E pos \in FindExisting(View(s), Head(sess[s].batch)) :
                    sess' = [sess EXCEPT ![s] = Checked(sess[s], rows, pos)]
            /\ lastOp' = Frames(s, [lastOp[s] EXCEPT !.txn = TRUE], FALSE)
            /\ UNCHANGED <<rows, lastSync, served>>
            /\ CallOnly
       ELSE StatementRaised(s, AfterStoreFailure(lastOp[s], "bulk_insert"))

\* bulk_insert, insert_data_packet: the write and its flush
StoreWrite(s) ==
    /\ Storing(s, "write")
    /\ ~WaitsForLock(s)
    /\ sess' = [sess EXCEPT ![s] = AfterWrite(Flushed(sess[s], rows))]
    /\ UNCHANGED <<rows, lastSync, lastOp, served>>
    /\ CallOnly

\* bulk_insert, self.session.commit(), and the count it returns
StoreCommit(s) ==
    /\ Storing(s, "commit")
    /\ rows' = Committed(sess[s], rows)
    /\ sess' = [sess EXCEPT ![s] = IdleSession]
    /\ lastOp' = Frames(s, [lastOp[s] EXCEPT !.pc = "update", !.txn = FALSE,
                                             !.count = Len(lastOp[s].packets)],
                        rows' # rows)
    /\ UNCHANGED <<lastSync, served>>
    /\ CallOnly

\* the database fails in bulk_insert (a SELECT, a flush or the commit) or in
\* update_last_sync (the SELECT, the UPDATE or the COMMIT): the transaction
\* is rolled back, and the session takes no statement before it is rolled
\* back itself
StoreFails(s) ==
    /\ lastOp[s].pc \in {"store", "update", "update_flush", "update_commit"}
    /\ sess' = [sess EXCEPT ![s] = InvalidSession]
    /\ lastOp' = Frames(s, AfterStoreFailure(lastOp[s],
                               IF lastOp[s].pc = "store" THEN "bulk_insert"
                               ELSE "update_last_sync"), FALSE)
    /\ UNCHANGED <<rows, lastSync, served>>
    /\ CallOnly

\* update_last_sync after its SELECT gave the row with last_sync loaded:
\* source.last_sync = datetime.now(), and the commit has an UPDATE to flush
\* when the value assigned is not the one loaded (a naive datetime never
\* equals an aware one)
AfterSourceRead(f, loaded, aware) ==
    [f EXCEPT !.pc = IF aware \/ now # loaded THEN "update_flush" ELSE "update_commit",
              !.txn = TRUE, !.sync_time = now]

\* update_last_sync, the SELECT of the data_sources row and, when the row is
\* there, source.last_sync = datetime.now()
UpdateRead(s) ==
    /\ lastOp[s].pc = "update"
    /\ IF tables
       THEN FrameStep(s,
                IF lastSync.exists
                THEN AfterSourceRead(lastOp[s], lastSync.last_sync, tzAware)
                ELSE SyncReturned([lastOp[s] EXCEPT !.txn = TRUE], lastOp[s].count))
       ELSE StatementRaised(s, AfterStoreFailure(lastOp[s], "update_last_sync"))

\* the data_sources row is locked by another session, which has sent its
\* UPDATE and not committed
SourceLockedByOther(s) == \E o \in Sessions \ {s} : lastOp[o].flushed

\* update_last_sync, self.session.commit(), the flush: the UPDATE of the
\* data_sources row, which waits for the lock of the row
UpdateFlush(s) ==
    /\ lastOp[s].pc = "update_flush"
    /\ ~SourceLockedByOther(s)
    /\ FrameStep(s, [lastOp[s] EXCEPT !.pc = "update_commit", !.flushed = TRUE])

\* update_last_sync, self.session.commit(), the COMMIT
UpdateCommit(s) ==
    /\ lastOp[s].pc = "update_commit"
    /\ lastSync' = IF lastOp[s].flushed
                   THEN [lastSync EXCEPT !.last_sync = lastOp[s].sync_time]
                   ELSE lastSync
    /\ lastOp' = Frames(s, SyncReturned([lastOp[s] EXCEPT !.txn = FALSE, !.flushed = FALSE],
                                        lastOp[s].count),
                        lastSync' # lastSync)
    /\ UNCHANGED <<rows, sess, served>>
    /\ CallOnly

\* variant: get_data_from_db returns its first read after the sync
ReadAgainStale(f, packets) == GetReturned(f, f.first)

\* get_data_from_db returns what it read after the sync
ReadAgain(f, packets) == GetReturned(f, packets)

\* get_data_from_db, the read after the sync, with source 'curveseries'; an
\* exception of it is printed by the except clause, and the first read is
\* returned
ReadAfterSync(s) ==
    /\ lastOp[s].pc = "reread"
    /\ IF tables
       THEN \E packets \in query_history_as_packets(View(s), Ticker(lastOp[s]),
                                lastOp[s].start, lastOp[s].end, "curveseries") :
                FrameStep(s, ReadAgain([lastOp[s] EXCEPT !.txn = TRUE], packets))
       ELSE StatementRaised(s, GetReturned([lastOp[s] EXCEPT !.txn = FALSE,
                                                            !.fault = "query_history"],
                                           lastOp[s].first))

\* variant: the probe is made outside the try block
verify_connection_unguarded(adapter) ==
    [ok |-> TRUE, exc |-> IF adapter = "raises" THEN "Exception" ELSE ""]

\* CurveSeriesClient.verify_connection once the probe has ended: True after
\* getCSData returned, False from the except clause
verify_connection(adapter) == [ok |-> adapter = "answers", exc |-> ""]

\* verify_connection is called: the probe request is sent
CallVerify(s) ==
    /\ Begin(s, [NoCall EXCEPT !.op = "verify", !.pc = "probing", !.adapter = "waits"])

\* verify_connection: the probe has ended
EndProbe(s) ==
    /\ lastOp[s].pc = "probing"
    /\ lastOp[s].adapter = "waits"
    /\ FrameStep(s, [lastOp[s] EXCEPT !.pc = "done",
                                      !.adapter = Replied(reachable),
                                      !.ok = verify_connection(Replied(reachable)).ok,
                                      !.exc = verify_connection(Replied(reachable)).exc])

\* Database.get_db, finally: the call has returned, session.close()
CloseSession(s) ==
    /\ lastOp[s].pc = "done"
    /\ lastOp' = [lastOp EXCEPT ![s] = NoCall]
    /\ sess' = [sess EXCEPT ![s] = IdleSession]
    /\ UNCHANGED <<rows, lastSync, served>>
    /\ CallOnly

\* the statements of sync_curveseries_data on session s, and the end of the
\* request
SyncStatement(s) ==
    \/ ReadExisting(s)
    \/ EndFetch(s)
    \/ StoreCheck(s)
    \/ StoreWrite(s)
    \/ StoreCommit(s)
    \/ UpdateRead(s)
    \/ UpdateFlush(s)
    \/ UpdateCommit(s)
    \/ CloseSession(s)

\* the statements of the call running on session s
CallStep(s) ==
    \/ ReadCache(s)
    \/ ReadAfterSync(s)
    \/ SyncStatement(s)

\* datetime.now() changes to another of the times of clock: time passes, or
\* the wall clock is set back
Tick(clock) ==
    /\ \E t \in clock : t # now /\ now' = t
    /\ lastOp' = Disturbed
    /\ UNCHANGED <<rows, sess, written, served, upstream, reachable, csEnabled, tzAware, tables, lastSync>>

\* the upstream series gets, revises or loses the value of a day
Publish(d, v) ==
    /\ upstream[d] # v
    /\ upstream' = [upstream EXCEPT ![d] = v]
    /\ lastOp' = Disturbed
    /\ UNCHANGED <<rows, sess, written, served, reachable, csEnabled, tzAware, tables, lastSync, now>>

\* CurveSeries Desktop is started or stopped
SetReachable ==
    /\ reachable' = ~reachable
    /\ lastOp' = Disturbed
    /\ UNCHANGED <<rows, sess, written, served, upstream, csEnabled, tzAware, tables, lastSync, now>>

\* Database.drop_tables: DROP TABLE of the tables of Base.metadata, which
\* waits until no transaction that has touched one of them is open
DropTables ==
    /\ tables
    /\ \A s \in Sessions : ~lastOp[s].txn
    /\ tables' = FALSE
    /\ rows' = <<>>
    /\ lastSync' = [exists |-> FALSE, last_sync |-> 0]
    /\ lastOp' = [o \in Sessions |->
                    IF lastOp[o].op # "idle"
                    THEN [lastOp[o] EXCEPT !.alone = FALSE, !.dropped = TRUE]
                    ELSE lastOp[o]]
    /\ UNCHANGED <<sess, written, served, upstream, reachable, csEnabled, tzAware, now>>

\* Database.create_tables when the tables are not there: they are made from
\* the models, empty, the timestamp columns as DateTime(timezone=True)
CreateTables ==
    /\ ~tables
    /\ tables' = TRUE
    /\ tzAware' = TRUE
    /\ lastOp' = Disturbed
    /\ UNCHANGED <<rows, sess, written, served, upstream, reachable, csEnabled, lastSync, now>>

\* the API process is restarted with another CURVESERIES_ENABLED: the
\* requests it was serving end with it, their transactions are rolled back
Restart ==
    /\ csEnabled' = ~csEnabled
    /\ lastOp' = [s \in Sessions |-> NoCall]
    /\ sess' = [s \in Sessions |-> IdleSession]
    /\ UNCHANGED <<rows, written, served, upstream, reachable, tzAware, tables, lastSync, now>>

\* the state in which the API starts: an empty table, an empty series; the
\* timestamp column is a timestamptz or not, the data_sources row of
\* 'curveseries' is there or not
ServiceInit(aware, exists) ==
    /\ rows = <<>>
    /\ sess = [s \in Sessions |-> IdleSession]
    /\ written = {}
    /\ served = 0
    /\ upstream = [d \in Days |-> 0]
    /\ reachable = TRUE
    /\ csEnabled = TRUE
    /\ tzAware \in aware
    /\ tables = TRUE
    /\ lastSync \in {[exists |-> e, last_sync |-> 0] : e \in exists}
    /\ now = DayTime(0, 0)
    /\ lastOp = [s \in Sessions |-> NoCall]

\* the times datetime.now() takes in Spec: midnight of day 0 and of day 1
Clock == {DayTime(0, 0), DayTime(1, 0)}

\* the times it takes where the calls are about day 0 alone: midnight and
\* noon of day 0
DayClock == {DayTime(0, 0), DayTime(0, Noon)}

\* the day the series has a value for in those specifications: the first
Today == CHOOSE d \in Days : \A e \in Days : d <= e

Init == ServiceInit(BOOLEAN, {TRUE})

\* the schema is dropped, or made again from the models
Schema == DropTables \/ CreateTables

\* get_data_from_db and the sync of a prefetch, while the series and the
\* clock move
Next ==
    \/ \E s \in Sessions, days \in 1..MaxDay, source \in {"curveseries", "", "binance"} :
            GetDataFromDb(s, days, source)
    \/ \E s \in Sessions, days \in 1..MaxDay : Prefetch(s, <<Equation>>, days)
    \/ \E s \in Sessions : CallStep(s)
    \/ Tick(Clock)
    \/ \E d \in Days, v \in {0, 1} : Publish(d, v)
    \/ DropTables

Spec == Init /\ [][Next]_vars

----------------------------------------------------------------------------
(* SpecHistory: the history requests, forced or not, while the series       *)
(* changes, CurveSeries Desktop is started and stopped and the API is       *)
(* restarted with or without its adapter.                                   *)

HistoryInit == ServiceInit(BOOLEAN, {TRUE})

HistoryNext ==
    \/ \E s \in Sessions, days \in 1..MaxDay, force_refresh \in BOOLEAN :
            HistoryRequest(s, days, force_refresh)
    \/ \E s \in Sessions : CallStep(s)
    \/ \E v \in Values \cup {0} : Publish(Today, v)
    \/ SetReachable
    \/ Restart
    \/ Schema

SpecHistory == HistoryInit /\ [][HistoryNext]_vars

----------------------------------------------------------------------------
(* SpecFault: the calls that fetch and store, with a database that may fail *)
(* in any statement of the store phase, and a data_sources row that is      *)
(* there or not.                                                            *)

FaultInit == ServiceInit(BOOLEAN, BOOLEAN)

FaultNext ==
    \/ \E s \in Sessions, days \in 1..MaxDay : GetDataFromDb(s, days, "curveseries")
    \/ \E s \in Sessions, days \in 1..MaxDay : HistoryRequest(s, days, TRUE)
    \/ \E s \in Sessions, days \in 1..MaxDay : Prefetch(s, <<Equation>>, days)
    \/ \E s \in Sessions : CallStep(s) \/ StoreFails(s)
    \/ \E v \in {0, 1} : Publish(Today, v)
    \/ Tick(DayClock)
    \/ Schema

SpecFault == FaultInit /\ [][FaultNext]_vars

----------------------------------------------------------------------------
(* SpecSync: the calls of the service with an adapter that may never        *)
(* answer, and verify_connection; the database does not fail.               *)

SyncInit == ServiceInit(BOOLEAN, BOOLEAN)

\* the statements of the calls in progress
SyncStep == \E s \in Sessions : CallStep(s) \/ EndProbe(s)

SyncNext ==
    \/ \E s \in Sessions, days \in 1..MaxDay : GetDataFromDb(s, days, "curveseries")
    \/ \E s \in Sessions, days \in 1..MaxDay : Prefetch(s, <<Equation>>, days)
    \/ \E s \in Sessions : CallVerify(s)
    \/ \E s \in Sessions : AdapterHangs(s)
    \/ SyncStep
    \/ Tick(DayClock)
    \/ \E v \in {0, 1} : Publish(Today, v)
    \/ SetReachable
    \/ Schema

SpecSync == SyncInit /\ [][SyncNext]_vars

\* the calls of get_data_from_db and verify_connection alone
FairNext ==
    \/ \E s \in Sessions, days \in 1..MaxDay : GetDataFromDb(s, days, "curveseries")
    \/ \E s \in Sessions : CallVerify(s)
    \/ \E s \in Sessions : AdapterHangs(s)
    \/ SyncStep
    \/ Publish(Today, 1)

\* the interpreter goes on with the statements of a running call, and an
\* adapter that answers or raises does so
SpecSyncFair == SyncInit /\ [][FairNext]_vars /\ WF_vars(SyncStep)

----------------------------------------------------------------------------
(* SpecPrefetch: prefetch_common_tickers over lists of one and two tickers, *)
(* all syncs of a list on the session of the request, with a database that  *)
(* may fail.                                                                *)

\* the lists POST /api/sync/prefetch is called with
TickerLists == { <<Equation>>,
                 <<Equation, "WTI_Crude_Futures_c1.Close">>,
                 <<"WTI_Crude_Futures_c1.Close", Equation>> }

PrefetchNext ==
    \/ \E s \in Sessions, tickers \in TickerLists, days \in 1..MaxDay :
            Prefetch(s, tickers, days)
    \/ \E s \in Sessions : SyncStatement(s) \/ StoreFails(s)
    \/ \E v \in {0, 1} : Publish(Today, v)
    \/ Schema

SpecPrefetch == SyncInit /\ [][PrefetchNext]_vars

----------------------------------------------------------------------------
(* SpecQuery: query_history and get_latest_value over the tables the store  *)
(* can hold: rows of two tickers and two sources in any table order, rows   *)
(* of one identity included, which two sessions that insert it at the same  *)
(* time leave behind.                                                       *)

QueryTickers == {Equation, "WTI_CRUDE"}
QuerySources == {"curveseries", "test_source"}
QueryTimes   == {DayTime(0, 0), DayTime(0, Noon), DayTime(1, 0)}

QueryPackets ==
    { Packet(source, ticker, t, 1, "unit", {}, {}) :
        source \in QuerySources, ticker \in QueryTickers, t \in QueryTimes }

\* the tables of at most MaxRows rows
QueryTables == UNION { [1..n -> QueryPackets] : n \in 0..MaxRows }

\* the state that only the record of the last call leaves
OnlyTable == UNCHANGED <<rows, sess, written, served, upstream, reachable, csEnabled, tzAware, tables,
                         lastSync, now>>

\* query_history(ticker, start_date, end_date, source), source "" for None
QueryHistory(ticker, start_date, end_date, source) ==
    /\ \E db_results \in query_history(rows, ticker, start_date, end_date, source) :
            lastOp' = [op |-> "query_history", ticker |-> ticker, start |-> start_date,
                       end |-> end_date, source |-> source, result |-> db_results]
    /\ OnlyTable

\* the filter of get_latest_value; source "" stands for None (not filtered)
MatchesTicker(r, ticker, source) ==
    r.ticker = ticker /\ (source # "" => r.source = source)

\* variant: ORDER BY timestamp ASC
IsFirstAscending(view, k, ticker, source) ==
    /\ MatchesTicker(view[k], ticker, source)
    /\ \A j \in 1..Len(view) :
            MatchesTicker(view[j], ticker, source) => view[j].timestamp >= view[k].timestamp

\* row k can be the first row of ORDER BY timestamp DESC over the filtered
\* rows: the database fixes no order among rows of equal timestamp
IsFirstDescending(view, k, ticker, source) ==
    /\ MatchesTicker(view[k], ticker, source)
    /\ \A j \in 1..Len(view) :
            MatchesTicker(view[j], ticker, source) => view[j].timestamp <= view[k].timestamp

\* MarketDataRepository.get_latest_value: the results .first() can give, each
\* as a list of one row; the empty list stands for None
get_latest_value(view, ticker, source) ==
    IF \E k \in 1..Len(view) : MatchesTicker(view[k], ticker, source)
    THEN { <<view[k]>> : k \in {i \in 1..Len(view) : IsFirstDescending(view, i, ticker, source)} }
    ELSE { <<>> }

\* get_latest_value(ticker, source), source "" for None
GetLatestValue(ticker, source) ==
    /\ \E latest \in get_latest_value(rows, ticker, source) :
            lastOp' = [op |-> "get_latest_value", ticker |-> ticker, source |-> source,
                       result |-> latest]
    /\ OnlyTable

QueryInit ==
    /\ rows \in QueryTables
    /\ sess = [s \in Sessions |-> IdleSession]
    /\ written = {}
    /\ served = 0
    /\ upstream = [d \in Days |-> 0]
    /\ reachable = TRUE
    /\ csEnabled = TRUE
    /\ tzAware = FALSE
    /\ tables = TRUE
    /\ lastSync = [exists |-> TRUE, last_sync |-> 0]
    /\ now = DayTime(0, 0)
    /\ lastOp = EnvRecord("env")

QueryNext ==
    \/ \E ticker \in QueryTickers, source \in QuerySources \cup {""} :
            GetLatestValue(ticker, source)
    \/ \E ticker \in QueryTickers, start_date \in QueryTimes, end_date \in QueryTimes,
          source \in QuerySources \cup {""} :
            QueryHistory(ticker, start_date, end_date, source)

SpecQuery == QueryInit /\ [][QueryNext]_vars

----------------------------------------------------------------------------
(* SpecNorm: the normaliser of fetch_history over raw tables of one to      *)
(* three rows, and SpecParse: _parse_custom_date over the dates of four     *)
(* years and over strings that are no dates.  In SpecNorm one client calls  *)
(* fetch_history twice and getCSData answers both calls with raw_data; the  *)
(* calls advance row by row while the clock moves.  lastOp holds the locals *)
(* of the call (frame), the requests made (calls), and what the first call  *)
(* (results) and the second (second) returned.                              *)

\* the locals of fetch_history before the first call
NoFrame == [start_date |-> NoneTs, end_date |-> NoneTs, results |-> <<>>, index |-> 0]

\* strings a raw cell may hold: two dates with a time of day, a date with a
\* numeric month, an ISO date, a date the calendar has not, dashed text that
\* is no date, text without a dash
RawStrings ==
    { Text(<<Num(26), Word("Dec"), Num(2025)>>, TRUE),
      Text(<<Num(27), Word("Dec"), Num(2025)>>, TRUE),
      Text(<<Num(26), Num(12), Num(2025)>>, FALSE),
      Text(<<Num(2025), Num(12), Num(26)>>, FALSE),
      Text(<<Num(31), Word("Feb"), Num(2025)>>, FALSE),
      Text(<<Word("not"), Word("a"), Word("date")>>, FALSE),
      Text(<<Word("Close")>>, FALSE) }

RawCells == {NumCell(v) : v \in {5, 7}} \cup {StrCell(t) : t \in RawStrings}

\* rows of up to three cells by themselves, rows of two cells in pairs and
\* in threes
RawRows(n) == UNION { [1..k -> RawCells] : k \in 0..n }
RawDate(day) == StrCell(Text(<<Num(day), Word("Dec"), Num(2025)>>, TRUE))
RawNoDate == StrCell(Text(<<Word("not"), Word("a"), Word("date")>>, FALSE))
RawTables == { <<row>> : row \in RawRows(3) }
             \cup { <<r1, r2>> : r1 \in [1..2 -> {NumCell(5), StrCell(Text(<<Num(26), Word("Dec"), Num(2025)>>, TRUE)), StrCell(Text(<<Word("not"), Word("a"), Word("date")>>, FALSE))}],
                                  r2 \in [1..2 -> {NumCell(7), StrCell(Text(<<Num(27), Word("Dec"), Num(2025)>>, TRUE))}] }
             \cup { <<r1, r2, r3>> : r1 \in { <<RawDate(26), NumCell(5)>>, <<RawNoDate, NumCell(5)>> },
                                      r2 \in { <<RawNoDate, NumCell(7)>>, <<NumCell(7), NumCell(7)>>,
                                               <<RawDate(27), NumCell(7)>> },
                                      r3 \in { <<RawDate(27), NumCell(5)>>, <<RawDate(26), NumCell(7)>>,
                                               <<NumCell(5), RawNoDate>> } }

NormInit ==
    /\ rows = <<>>
    /\ sess = [s \in Sessions |-> IdleSession]
    /\ written = {}
    /\ served = 0
    /\ upstream = [d \in Days |-> 0]
    /\ reachable = TRUE
    /\ csEnabled = TRUE
    /\ tzAware = FALSE
    /\ tables = TRUE
    /\ lastSync = [exists |-> TRUE, last_sync |-> 0]
    /\ now = DayTime(0, 0)
    /\ lastOp \in { [op |-> "raw", raw_data |-> raw_data, results |-> <<>>,
                     second |-> <<>>, tzinfo |-> <<>>, frame |-> NoFrame,
                     calls |-> <<>>] : raw_data \in RawTables }

\* the tzinfo of the timestamp of each packet of fetch_history: ts_obj is
\* what _parse_custom_date returned
TimestampTzinfo(results) == [j \in 1..Len(results) |-> ParsedTzinfo]

NormUnchanged ==
    UNCHANGED <<rows, sess, written, served, upstream, reachable, csEnabled, tzAware, tables,
                lastSync, now>>

\* fetch_history(equation, start_date, end_date) is called, for the first
\* time or again by the same client: the request is made with the dates as
\* formatted, and getCSData answers with the raw table
NormCall(start_date, end_date) ==
    /\ lastOp.op \in {"raw", "normalized"}
    /\ LET frame == CallFrame(lastOp.frame, now, start_date, end_date)
       IN  lastOp' = [lastOp EXCEPT !.op = IF lastOp.op = "raw" THEN "first" ELSE "again",
                                    !.frame = frame,
                                    !.calls = Append(@, [equation |-> Equation,
                                                         s_str |-> FormatDate(frame.start_date),
                                                         e_str |-> FormatDate(frame.end_date)])]
    /\ NormUnchanged

\* the row loop of fetch_history takes the next row
NormRow ==
    /\ lastOp.op \in {"first", "again"}
    /\ lastOp.frame.index <= Len(lastOp.raw_data)
    /\ lastOp' = [lastOp EXCEPT !.frame = RowFrame(@, Equation, lastOp.raw_data)]
    /\ NormUnchanged

\* the row loop has ended: return results
NormReturn ==
    /\ lastOp.op \in {"first", "again"}
    /\ lastOp.frame.index > Len(lastOp.raw_data)
    /\ lastOp' = IF lastOp.op = "first"
                 THEN [lastOp EXCEPT !.op = "normalized",
                                     !.results = lastOp.frame.results,
                                     !.tzinfo = TimestampTzinfo(lastOp.frame.results)]
                 ELSE [lastOp EXCEPT !.op = "twice",
                                     !.second = lastOp.frame.results]
    /\ NormUnchanged

\* the clock changes, before, during or between the calls
NormTick ==
    /\ lastOp.op # "twice"
    /\ \E t \in Times : t # now /\ now' = t
    /\ UNCHANGED <<rows, sess, written, served, upstream, reachable, csEnabled, tzAware, tables,
                   lastSync, lastOp>>

NormNext ==
    \/ \E start_date \in {NoneTs, DayTime(0, 0)}, end_date \in {NoneTs, DayTime(MaxDay, 0)} :
            NormCall(start_date, end_date)
    \/ NormRow
    \/ NormReturn
    \/ NormTick

SpecNorm == NormInit /\ [][NormNext]_vars

\* the years of SpecParse: the first year of the epoch, the leap century, a
\* leap year and a common year (a datetime is a number of seconds that has to
\* fit 32 bits, which leaves 1970..2037)
ParseYears == {1970, 2000, 2024, 2025}

ValidDates ==
    { <<y, m, d>> : y \in ParseYears, m \in 1..12, d \in 1..31 } \cap
    { c \in ParseYears \X (1..12) \X (1..31) : c[3] <= DaysInMonth(c[1], c[2]) }

\* the three spellings of a date: 'DD-Mon-YYYY', the same with a space and a
\* time of day after it, 'DD-MM-YYYY'
Spellings(c) ==
    [abbr     |-> Text(<<Num(c[3]), Word(MonthAbbr[c[2]]), Num(c[1])>>, FALSE),
     suffixed |-> Text(<<Num(c[3]), Word(MonthAbbr[c[2]]), Num(c[1])>>, TRUE),
     numeric  |-> Text(<<Num(c[3]), Num(c[2]), Num(c[1])>>, FALSE)]

\* the fields of the strings of SpecParse that need not be dates: days in
\* and out of the month, months in every spelling, years in and out of
\* datetime's range, words and empty fields where a numeral is expected
DayFields == {Num(0), Num(1), Num(29), Num(30), Num(31), Num(32), Word("x"), Word("")}
MonthFields == {Word("Feb"), Word("feb"), Word("Apr"), Word("Dec"), Word("DEC"),
                Word("December"), Word(""), Num(0), Num(2), Num(4), Num(12), Num(13)}
YearFields == {Num(0), Num(2024), Num(2025), Num(10000), Word("y")}

\* strings of three fields, with and without a time of day after a space,
\* and strings of one, two and four fields
ParseTexts ==
    { Text(<<d, m, y>>, tail) :
        d \in DayFields, m \in MonthFields, y \in YearFields, tail \in BOOLEAN }
    \cup { Text(parts, tail) :
             parts \in { <<Word("")>>, <<Num(2025)>>,
                         <<Num(26), Word("Dec")>>, <<Num(12), Num(2025)>>,
                         <<Num(26), Word("Dec"), Num(2025), Num(1)>>,
                         <<Word(""), Num(26), Word("Dec"), Num(2025)>> },
             tail \in BOOLEAN }

ParseInit ==
    /\ rows = <<>>
    /\ sess = [s \in Sessions |-> IdleSession]
    /\ written = {}
    /\ served = 0
    /\ upstream = [d \in Days |-> 0]
    /\ reachable = TRUE
    /\ csEnabled = TRUE
    /\ tzAware = FALSE
    /\ tables = TRUE
    /\ lastSync = [exists |-> TRUE, last_sync |-> 0]
    /\ now = DayTime(0, 0)
    /\ lastOp \in { [op |-> "date", date |-> c, abbr |-> NoneTs, suffixed |-> NoneTs,
                     numeric |-> NoneTs] : c \in ValidDates }
                 \cup { [op |-> "text", txt |-> txt, result |-> NoneTs] : txt \in ParseTexts }

\* _parse_custom_date applied to the three spellings of the date
ParseSpellings ==
    /\ lastOp.op = "date"
    /\ lastOp' = [lastOp EXCEPT
                    !.op = "parsed",
                    !.abbr = ParseCustomDate(Spellings(lastOp.date).abbr),
                    !.suffixed = ParseCustomDate(Spellings(lastOp.date).suffixed),
                    !.numeric = ParseCustomDate(Spellings(lastOp.date).numeric)]
    /\ UNCHANGED <<rows, sess, written, served, upstream, reachable, csEnabled, tzAware, tables,
                   lastSync, now>>

\* _parse_custom_date applied to the string
ParseText ==
    /\ lastOp.op = "text"
    /\ lastOp' = [lastOp EXCEPT !.op = "parsed_text", !.result = ParseCustomDate(lastOp.txt)]
    /\ UNCHANGED <<rows, sess, written, served, upstream, reachable, csEnabled, tzAware, tables,
                   lastSync, now>>

ParseNext == ParseSpellings \/ ParseText

SpecParse == ParseInit /\ [][ParseNext]_vars

----------------------------------------------------------------------------
(* SpecProducer: RedisBinanceProducer.  now is time.time() in seconds, which *)
(* the system may also set back; lastOp is the producer: last_send_time,    *)
(* the stream as the arrival times of the messages written to it, oldest    *)
(* first, what on_message did with the last message, and how many messages  *)
(* the producer object has written since it was made (wrote).  The stream   *)
(* outlives the producer, which is made anew when its process starts again. *)

\* the seconds between two writes
SendInterval == 5

\* time.time() stays within MinClock..MaxClock
MinClock == 8
MaxClock == 20

\* maxlen of xadd
StreamMaxLen == 3

\* the entries of a node of the stream (stream-node-max-entries of the server)
StreamNodeMaxEntries == 2

\* the trimming of XADD ... MAXLEN ~ maxlen: the oldest node is removed, whole,
\* as long as the stream keeps maxlen entries without it
RECURSIVE Trimmed(_)
Trimmed(stream) ==
    IF Len(stream) - StreamNodeMaxEntries >= StreamMaxLen
    THEN Trimmed(SubSeq(stream, StreamNodeMaxEntries + 1, Len(stream)))
    ELSE stream

\* xadd(stream_key, payload, maxlen), approximate as xadd is by default: the
\* entry is appended, then the stream is trimmed by whole nodes
xadd(stream, entry) == Trimmed(Append(stream, entry))

\* variant: last_send_time is set before the try block
on_message_marking_first(p, current_time, valid, stored) ==
    IF current_time - p.last_send_time < SendInterval
    THEN [p EXCEPT !.last = "skipped"]
    ELSE IF ~valid \/ ~stored
    THEN [p EXCEPT !.last = "failed", !.last_send_time = current_time]
    ELSE [p EXCEPT !.last = "written", !.last_send_time = current_time,
                   !.stream = xadd(p.stream, current_time), !.wrote = @ + 1]

\* RedisBinanceProducer.on_message for a message that arrives at
\* current_time: valid is whether json.loads takes it, stored whether xadd
\* returns; an exception of either is printed and dropped
on_message(p, current_time, valid, stored) ==
    IF current_time - p.last_send_time < SendInterval
    THEN [p EXCEPT !.last = "skipped"]
    ELSE IF ~valid \/ ~stored
    THEN [p EXCEPT !.last = "failed"]
    ELSE [p EXCEPT !.last = "written", !.last_send_time = current_time,
                   !.stream = xadd(p.stream, current_time), !.wrote = @ + 1]

\* what the producer leaves alone
ProducerOnly == UNCHANGED <<rows, sess, written, served, upstream, reachable, csEnabled,
                            tzAware, tables, lastSync>>

\* the websocket delivers a message
OnMessage(valid, stored) ==
    /\ lastOp' = on_message(lastOp, now, valid, stored)
    /\ UNCHANGED now
    /\ ProducerOnly

\* a second passes
ClockTick ==
    /\ now < MaxClock
    /\ now' = now + 1
    /\ lastOp' = [lastOp EXCEPT !.last = "none"]
    /\ ProducerOnly

\* the system clock is set back by some seconds
ClockSetBack(seconds) ==
    /\ now - seconds >= MinClock
    /\ now' = now - seconds
    /\ lastOp' = [lastOp EXCEPT !.last = "none"]
    /\ ProducerOnly

\* RedisBinanceProducer.__init__ when the process of the producer starts
\* again: last_send_time is 0, the stream is as the server holds it
StartProducer ==
    /\ lastOp.last_send_time # 0
    /\ lastOp' = [lastOp EXCEPT !.last_send_time = 0, !.last = "none", !.wrote = 0]
    /\ UNCHANGED now
    /\ ProducerOnly

\* RedisBinanceProducer.__init__, the stream not yet written to
ProducerInit ==
    /\ rows = <<>>
    /\ sess = [s \in Sessions |-> IdleSession]
    /\ written = {}
    /\ served = 0
    /\ upstream = [d \in Days |-> 0]
    /\ reachable = TRUE
    /\ csEnabled = TRUE
    /\ tzAware = FALSE
    /\ tables = TRUE
    /\ lastSync = [exists |-> TRUE, last_sync |-> 0]
    /\ now = MinClock
    /\ lastOp = [op |-> "producer", last_send_time |-> 0, stream |-> <<>>, last |-> "none",
                 wrote |-> 0]

ProducerNext ==
    \/ \E valid \in BOOLEAN, stored \in BOOLEAN : OnMessage(valid, stored)
    \/ ClockTick
    \/ \E seconds \in 1..3 : ClockSetBack(seconds)
    \/ StartProducer

SpecProducer == ProducerInit /\ [][ProducerNext]_vars

----------------------------------------------------------------------------
(* SpecConsumer: redis_consumer.consume.  lastOp holds the stream (its       *)
(* entries have the ids 1..stream), the consumer group of the stream (its   *)
(* last delivered id and its list of delivered, unacknowledged ids) and the *)
(* consumer process: pc is "down", "read" (at xreadgroup) or "ack" (at xack *)
(* for message_id).                                                         *)

\* entries the producer writes
MaxEntries == 3

\* times the consumer process is killed
MaxCrashes == 2

\* times a command of the consumer fails on the connection
MaxFailures == 1

\* no consumer group yet
NoGroup == [exists |-> FALSE, last_delivered |-> 0, pending |-> {}]

\* create_group: xgroup_create(id='$', mkstream=True) starts the group at
\* the stream's last entry; BUSYGROUP of an existing group is ignored
create_group(group, stream) ==
    IF group.exists THEN group
    ELSE [exists |-> TRUE, last_delivered |-> stream, pending |-> {}]

\* xreadgroup(GROUP_NAME, CONSUMER_NAME, {STREAM_KEY: '>'}, count=1): the
\* ids it returns, those of at most one entry never delivered to the group
xreadgroup(group, stream) ==
    IF group.last_delivered < stream THEN <<group.last_delivered + 1>> ELSE <<>>

\* the group after that read: the entry is delivered and pending
Delivered(group, ids) ==
    IF ids = <<>> THEN group
    ELSE [group EXCEPT !.last_delivered = ids[1], !.pending = @ \cup {ids[1]}]

\* xack(STREAM_KEY, GROUP_NAME, message_id)
xack(group, message_id) == [group EXCEPT !.pending = @ \ {message_id}]

ConsumerOnly == UNCHANGED <<rows, sess, written, served, upstream, reachable, csEnabled,
                            tzAware, tables, lastSync, now>>

\* the producer adds an entry to the stream
ProducerWrites ==
    /\ lastOp.stream < MaxEntries
    /\ lastOp' = [lastOp EXCEPT !.stream = @ + 1]
    /\ ConsumerOnly

\* the consumer is started: consume() up to the loop
StartConsumer ==
    /\ lastOp.pc = "down"
    /\ lastOp' = [lastOp EXCEPT !.pc = "read",
                                !.group = create_group(lastOp.group, lastOp.stream)]
    /\ ConsumerOnly

\* one xreadgroup of the loop: with an entry the loop goes on to its xack,
\* with none it reads again
ReadGroup ==
    /\ lastOp.pc = "read"
    /\ LET ids == xreadgroup(lastOp.group, lastOp.stream)
       IN  lastOp' = [lastOp EXCEPT !.group = Delivered(lastOp.group, ids),
                                    !.pc = IF ids = <<>> THEN "read" ELSE "ack",
                                    !.message_id = IF ids = <<>> THEN 0 ELSE ids[1]]
    /\ ConsumerOnly

\* the xack of the loop returns
Ack ==
    /\ lastOp.pc = "ack"
    /\ lastOp' = [lastOp EXCEPT !.group = xack(lastOp.group, lastOp.message_id),
                                !.pc = "read", !.message_id = 0]
    /\ ConsumerOnly

\* the xack of the loop raises redis.ConnectionError: it is printed and the
\* loop reads again
AckFails ==
    /\ lastOp.pc = "ack"
    /\ lastOp.failures < MaxFailures
    /\ lastOp' = [lastOp EXCEPT !.pc = "read", !.message_id = 0, !.failures = @ + 1]
    /\ ConsumerOnly

\* the consumer process is killed
Crash ==
    /\ lastOp.pc # "down"
    /\ lastOp.crashes < MaxCrashes
    /\ lastOp' = [lastOp EXCEPT !.pc = "down", !.message_id = 0, !.crashes = @ + 1]
    /\ ConsumerOnly

\* the steps of the consumer itself
ConsumerStep == StartConsumer \/ ReadGroup \/ Ack

ConsumerInit ==
    /\ rows = <<>>
    /\ sess = [s \in Sessions |-> IdleSession]
    /\ written = {}
    /\ served = 0
    /\ upstream = [d \in Days |-> 0]
    /\ reachable = TRUE
    /\ csEnabled = TRUE
    /\ tzAware = FALSE
    /\ tables = TRUE
    /\ lastSync = [exists |-> TRUE, last_sync |-> 0]
    /\ now = 0
    /\ lastOp = [op |-> "consumer", stream |-> 0, group |-> NoGroup, pc |-> "down",
                 message_id |-> 0, crashes |-> 0, failures |-> 0]

ConsumerNext ==
    \/ ProducerWrites
    \/ StartConsumer
    \/ ReadGroup
    \/ Ack
    \/ AckFails
    \/ Crash

SpecConsumer == ConsumerInit /\ [][ConsumerNext]_vars

\* a consumer that is started, reading or acknowledging goes on, and it is
\* killed and fails only finitely often
SpecConsumerFair == SpecConsumer /\ WF_vars(ConsumerStep)

----------------------------------------------------------------------------
(* Properties.  In the specifications of the service they read the frames   *)
(* of the calls, lastOp[s]: pre is what the cache held for the range when   *)
(* the call began, first what its first read gave, calls the adapter calls  *)
(* it made, result and exc what it answered.  A call is settled when it has *)
(* returned and nothing but the call itself has changed the store, the      *)
(* series, the reachability or the clock since it began: what such a call   *)
(* did is compared with the state as it is.                                 *)

NoDuplicates(view) ==
    \A i, j \in 1..Len(view) : i # j => ~SameIdentity(view[i], view[j])

Holds(view, packet) == \E i \in 1..Len(view) : view[i] = packet

\* the view has a row with the identity and the payload of the packet, the
\* raw payload as the JSONB column gives it back
Stores(view, packet) == Holds(view, MarketData(packet))

AllStored(packets) == \A i \in 1..Len(packets) : Stores(rows, packets[i])

\* the row a dict of to_dict was made from
RowOf(d) == [i \in 1..Cardinality(d) |-> (CHOOSE item \in d : item[1].label = i - 1)[2]]

\* the packets the adapter gives for a recorded call, with the upstream as it is
FetchedBy(call) ==
    FetchRows(upstream, reachable, call.equation, call.s_str, call.e_str).packets

AdapterCall(start_date, end_date) ==
    [equation |-> Equation, s_str |-> FormatDate(start_date), e_str |-> FormatDate(end_date)]

\* what a read of the range of the call can give now
ReRead(rec) == query_history_as_packets(rows, Equation, rec.start, rec.end, "curveseries")

IsStale(rec)      == rec.pre # <<>> /\ MaxTimestamp(rec.pre) < rec.end
IsSufficient(rec) == rec.pre # <<>> /\ MaxTimestamp(rec.pre) >= rec.end

\* a call of get_data_from_db, by itself or from the handler, not forced
IsGetOrSync(rec) == rec.op \in {"get", "history"} /\ ~rec.force

\* the call has returned
Returned(rec) == rec.pc = "done"

\* the call has returned and ran undisturbed
Settled(rec) == rec.pc = "done" /\ rec.alone

\* C1: through one session, whatever insert_data_packet and bulk_insert calls
\* were made, the session sees at most one row per identity (source, ticker,
\* timestamp), and for every identity written the row carries the value,
\* unit, metadata and raw payload of the last packet written with it.
C1_OneRowPerIdentity ==
    /\ NoDuplicates(View(1))
    /\ NoDuplicates(rows)
    /\ \A packet \in written : Stores(View(1), packet)

\* C1 witness: a committed row was written again with another payload; the
\* session sees the new payload in the same row.
C1_Witness ==
    \E i \in 1..Len(rows) :
        /\ rows[i].value = 1
        /\ View(1)[i].value = 2
        /\ \E packet \in written : View(1)[i] = MarketData(packet)
        /\ sess[1].pc = "idle"

\* both sessions are between calls and hold nothing uncommitted
Quiescent == \A s \in Sessions : sess[s].pc = "idle" /\ ~Pending(s)

\* C10 (the claim as stated): whatever the interleaving of two sessions'
\* checks, writes and commits, once both are done the table holds one row
\* per identity.
C10_ConcurrentUpsertOneRow == Quiescent => NoDuplicates(rows)

\* C11 (the claim as stated): the writes of a batch that failed before its
\* commit are never committed: no commit changes the table while the session
\* still holds what a failed batch has written.
C11_FailedBatchNeverCommitted ==
    [][\A s \in Sessions : sess[s].failed => rows' = rows]_vars

\* the row is one the recorded query asks for
InRange(r, rec) ==
    /\ r.ticker = rec.ticker
    /\ rec.start <= r.timestamp /\ r.timestamp <= rec.end
    /\ (rec.source = "" \/ r.source = rec.source)

\* C14: query_history(ticker, start, end, source) returns exactly the stored
\* rows of that ticker with start <= timestamp <= end, of that source when
\* one is given, each once; it returns the empty list when there is none.
C14_QueryRangeExact ==
    lastOp.op = "query_history"
    => /\ \A i \in 1..Len(rows) : InRange(rows[i], lastOp) <=> Holds(lastOp.result, rows[i])
       /\ \A j \in 1..Len(lastOp.result) : Holds(rows, lastOp.result[j])
       /\ Len(lastOp.result) = Cardinality({i \in 1..Len(rows) : InRange(rows[i], lastOp)})

\* C14 witness: a query with a source returns a row dated start and a row
\* dated end, and leaves out a row of the table.
C14_Witness ==
    /\ lastOp.op = "query_history"
    /\ lastOp.source # ""
    /\ lastOp.start < lastOp.end
    /\ \E j \in 1..Len(lastOp.result) : lastOp.result[j].timestamp = lastOp.start
    /\ \E j \in 1..Len(lastOp.result) : lastOp.result[j].timestamp = lastOp.end
    /\ Len(lastOp.result) < Len(rows)

\* C15 (the claim as stated): the list query_history returns has strictly
\* increasing timestamps, whatever the arguments, source omitted included,
\* over every table that holds one row per identity.
C15_QueryStrictlyAscending ==
    (lastOp.op = "query_history" /\ NoDuplicates(rows))
    => \A j \in 1..(Len(lastOp.result) - 1) :
            lastOp.result[j].timestamp < lastOp.result[j + 1].timestamp

\* the leftmost numeric cell of the row from column i on, 0 when there is none
RECURSIVE LeftmostNumeric(_, _)
LeftmostNumeric(row, i) ==
    IF i > Len(row) THEN 0
    ELSE IF row[i].kind = "num" THEN row[i].num
    ELSE LeftmostNumeric(row, i + 1)

\* C16 (the claim as stated): the value of every packet is the leftmost
\* numeric cell of the row it was made from, 0 when the row has none.
C16_ValueIsLeftmostNumeric ==
    lastOp.op = "normalized"
    => \A j \in 1..Len(lastOp.results) :
            lastOp.results[j].value = LeftmostNumeric(RowOf(lastOp.results[j].raw_data), 1)

\* the timestamps that parse from the string cells of the row
ParsedOf(row) ==
    { ParseCustomDate(row[i].txt) : i \in {k \in 1..Len(row) : row[k].kind = "str"} }
    \ {NoneTs}

\* C17: a raw row none of whose cells parses as a date gives no packet, every
\* other row gives one, and the timestamp of a packet is the parse of a cell
\* of the row it was made from.
C17_NoTimestampNoPacket ==
    lastOp.op = "normalized"
    => /\ \A j \in 1..Len(lastOp.results) :
            /\ \E k \in 1..Len(lastOp.raw_data) :
                    lastOp.raw_data[k] = RowOf(lastOp.results[j].raw_data)
            /\ lastOp.results[j].timestamp \in ParsedOf(RowOf(lastOp.results[j].raw_data))
       /\ Len(lastOp.results)
            = Cardinality({k \in 1..Len(lastOp.raw_data) : ParsedOf(lastOp.raw_data[k]) # {}})

\* C17 witness: of two rows, the one with a number and a dashed string that
\* is no date is dropped, the other gives the one packet.
C17_Witness ==
    /\ lastOp.op = "normalized"
    /\ Len(lastOp.raw_data) = 2
    /\ ParsedOf(lastOp.raw_data[1]) = {}
    /\ \E i \in 1..2 : lastOp.raw_data[1][i].kind = "num"
    /\ \E i \in 1..2 : lastOp.raw_data[1][i].kind = "str" /\ HasDash(lastOp.raw_data[1][i].txt)
    /\ Len(lastOp.results) = 1
    /\ RowOf(lastOp.results[1].raw_data) = lastOp.raw_data[2]

\* C18: for every valid date, _parse_custom_date gives the same datetime for
\* 'DD-Mon-YYYY', for that string followed by a time of day and for
\* 'DD-MM-YYYY': midnight of that day.
C18_SpellingsParseAlike ==
    lastOp.op = "parsed"
    => /\ lastOp.abbr # NoneTs
       /\ lastOp.suffixed = lastOp.abbr
       /\ lastOp.numeric = lastOp.abbr
       /\ lastOp.abbr % SecondsPerDay = 0
       /\ CivilFromDays(DateOf(lastOp.abbr)) = lastOp.date

\* C18 witness: the leap day of 2024, parsed from its numeric spelling.
C18_Witness ==
    /\ lastOp.op = "parsed"
    /\ lastOp.date = <<2024, 2, 29>>
    /\ lastOp.numeric = Midnight(DaysFromCivil(2024, 2, 29))

\* the stored rows that get_latest_value(ticker, source) has to choose from
LatestCandidates(rec) ==
    { i \in 1..Len(rows) :
        /\ rows[i].ticker = rec.ticker
        /\ rec.source # "" => rows[i].source = rec.source }

\* C24: get_latest_value(ticker, source) returns a stored row of that ticker
\* (and of that source when one is given) whose timestamp no matching row
\* exceeds, and None exactly when no stored row matches.
C24_LatestValueIsMaximum ==
    lastOp.op = "get_latest_value"
    => IF LatestCandidates(lastOp) = {}
       THEN lastOp.result = <<>>
       ELSE /\ Len(lastOp.result) = 1
            /\ \E i \in LatestCandidates(lastOp) : rows[i] = lastOp.result[1]
            /\ \A i \in LatestCandidates(lastOp) :
                    rows[i].timestamp <= lastOp.result[1].timestamp

\* C24 witness: the table holds an older and a newer row of the ticker and a
\* row of another ticker newer than both; asked without a source, the newer
\* row of the ticker is returned.
C24_Witness ==
    /\ lastOp.op = "get_latest_value"
    /\ lastOp.source = ""
    /\ Len(lastOp.result) = 1
    /\ \E i \in LatestCandidates(lastOp) : rows[i].timestamp < lastOp.result[1].timestamp
    /\ \E i \in 1..Len(rows) :
            /\ rows[i].ticker # lastOp.ticker
            /\ rows[i].timestamp > lastOp.result[1].timestamp


\* the parse of the leftmost string cell with a '-' of the row from column i
\* on, NoneTs when the row has no such cell
RECURSIVE LeftmostDashed(_, _)
LeftmostDashed(row, i) ==
    IF i > Len(row) THEN NoneTs
    ELSE IF row[i].kind = "str" /\ HasDash(row[i].txt) THEN ParseCustomDate(row[i].txt)
    ELSE LeftmostDashed(row, i + 1)

\* C26 (the claim as stated): the timestamp of every packet is the parse of
\* the leftmost string cell of its row that contains a '-'.
C26_TimestampIsLeftmostDashed ==
    lastOp.op = "normalized"
    => \A j \in 1..Len(lastOp.results) :
            lastOp.results[j].timestamp = LeftmostDashed(RowOf(lastOp.results[j].raw_data), 1)

\* the row has a cell that parses as a date
Parseable(row) == ParsedOf(row) # {}

\* C27: the packets of fetch_history are one per row with a parseable
\* timestamp, in the order of the rows; rows without one are left out and
\* change nothing for the others (the fetch does not fail because of them).
C27_BadRowAffectsNoOther ==
    lastOp.op = "normalized"
    => [j \in 1..Len(lastOp.results) |-> RowOf(lastOp.results[j].raw_data)]
            = SelectSeq(lastOp.raw_data, Parseable)

\* C27 witness: of three rows the second has no parseable timestamp; the
\* first and the third give the two packets, in this order.
C27_Witness ==
    /\ lastOp.op = "normalized"
    /\ Len(lastOp.raw_data) = 3
    /\ Parseable(lastOp.raw_data[1])
    /\ ~Parseable(lastOp.raw_data[2])
    /\ Parseable(lastOp.raw_data[3])
    /\ lastOp.raw_data[1] # lastOp.raw_data[3]
    /\ Len(lastOp.results) = 2
    /\ RowOf(lastOp.results[1].raw_data) = lastOp.raw_data[1]
    /\ RowOf(lastOp.results[2].raw_data) = lastOp.raw_data[3]

\* the month a field names: a three-letter abbreviation Jan..Dec, spelled
\* as in month_map, or a numeral; 0 for anything else
NamedMonth(field) ==
    IF field.k = "num" THEN field.n
    ELSE IF \E m \in 1..12 : MonthAbbr[m] = field.w
         THEN CHOOSE m \in 1..12 : MonthAbbr[m] = field.w
         ELSE 0

\* year, month and day are a date of the calendar: the day number of the
\* date gives the date back
IsCalendarDate(y, m, d) ==
    /\ y \in 1..9999 /\ m \in 1..12 /\ d \in 1..31
    /\ CivilFromDays(DaysFromCivil(y, m, d)) = <<y, m, d>>

\* the string is three fields, day-month-year, that form a calendar date
IsDateText(txt) ==
    /\ Len(txt.parts) = 3
    /\ txt.parts[1].k = "num"
    /\ txt.parts[3].k = "num"
    /\ IsCalendarDate(txt.parts[3].n, NamedMonth(txt.parts[2]), txt.parts[1].n)

\* C28: _parse_custom_date gives a datetime only for a string whose part
\* before the first space is day-month-year, the month a three-letter
\* abbreviation or a numeral, and a date of the calendar; for every other
\* string it gives None (and for the former the midnight of the date).
C28_ParseRejectsNonDates ==
    lastOp.op = "parsed_text"
    => IF IsDateText(lastOp.txt)
       THEN lastOp.result = Midnight(DaysFromCivil(lastOp.txt.parts[3].n,
                                                   NamedMonth(lastOp.txt.parts[2]),
                                                   lastOp.txt.parts[1].n))
       ELSE lastOp.result = NoneTs

\* C28 witness: '31-Apr-2025', three fields of the right kinds that are no
\* date of the calendar, has been parsed to None.
C28_Witness ==
    /\ lastOp.op = "parsed_text"
    /\ lastOp.txt.parts = <<Num(31), Word("Apr"), Num(2025)>>
    /\ lastOp.result = NoneTs

\* C29: two calls of fetch_history by one client for the same equation, to
\* which getCSData answers with the same raw rows, return the same list of
\* packets, whatever the clock shows at any step of either call, whatever
\* dates each call asks for, and whatever the first call left behind.
C29_NormalizationDeterministic ==
    lastOp.op = "twice" => lastOp.second = lastOp.results

\* C29 witness: the second call was made for another window than the first,
\* on rows of which one gave a packet and one had no timestamp.
C29_Witness ==
    /\ lastOp.op = "twice"
    /\ lastOp.calls[1].s_str # lastOp.calls[2].s_str
    /\ lastOp.calls[1].e_str # lastOp.calls[2].e_str
    /\ lastOp.second # <<>>
    /\ Len(lastOp.second) < Len(lastOp.raw_data)

\* C30 (the claim as stated): a commit persists the writes of the batch that
\* ends with it and nothing else: the transaction it commits held no flushed
\* write when the batch began.
C30_CommitIsOneBatch ==
    [][\A s \in Sessions :
            (sess[s].pc = "commit" /\ sess'[s].pc = "idle" /\ rows' # rows)
            => ~sess[s].carried]_vars

\* C32 (the claim as stated): the timestamp of every packet the normaliser
\* emits is timezone-aware.
C32_TimestampsTimezoneAware ==
    lastOp.op = "normalized"
    => \A j \in 1..Len(lastOp.results) : lastOp.tzinfo[j] = "aware"

\* the message that arrives now falls in the window of the last message
\* the producer has written to the stream
InWindow ==
    lastOp.wrote > 0 /\ now - lastOp.stream[Len(lastOp.stream)] < SendInterval

\* on_message has run: a message has arrived at the producer
Arrived == now' = now /\ lastOp' # lastOp /\ lastOp'.last # "none"

\* C35: the arrival times of two messages a producer writes one after the
\* other are at least 5 seconds apart; a message that arrives within 5
\* seconds of the last message the producer has written is dropped without a
\* write, and only such messages are dropped as too early, so a message that
\* failed opens no window.
C35_OneWritePerWindow ==
    [][Arrived
       => /\ InWindow => (lastOp'.last = "skipped" /\ lastOp'.stream = lastOp.stream)
          /\ lastOp'.last = "skipped" => InWindow
          /\ lastOp'.last = "failed" => lastOp'.stream = lastOp.stream
          /\ lastOp'.last = "written"
             => /\ lastOp'.stream[Len(lastOp'.stream)] = now
                /\ lastOp.wrote > 0
                   => now - lastOp.stream[Len(lastOp.stream)] >= SendInterval]_vars

\* C35 witness: the message just written arrived exactly 5 seconds after the
\* message the producer has written before it.
C35_Witness ==
    /\ lastOp.op = "producer"
    /\ lastOp.last = "written"
    /\ lastOp.wrote >= 2
    /\ Len(lastOp.stream) >= 2
    /\ lastOp.stream[Len(lastOp.stream)] = now
    /\ now - lastOp.stream[Len(lastOp.stream) - 1] = SendInterval

\* C36: every message delivered to the consumer and not acknowledged is
\* acknowledged later: after a crash or a failed xack a later read delivers
\* it again.
C36_DeliveredEventuallyAcked ==
    \A id \in 1..MaxEntries :
        (id \in lastOp.group.pending) ~> (id \notin lastOp.group.pending)

\* C2 (the claim as stated): a get_data_from_db that is not forced and reads a
\* non-empty cached set whose latest timestamp is before end calls the
\* adapter for the tail from just after that timestamp to end, stores what it
\* gets and returns the range read again.
C2_StaleCacheFetchesTail ==
    \A s \in Sessions :
        (Settled(lastOp[s]) /\ IsGetOrSync(lastOp[s]) /\ lastOp[s].source = "curveseries"
            /\ lastOp[s].client /\ IsStale(lastOp[s]))
        => /\ lastOp[s].calls = <<AdapterCall(MaxTimestamp(lastOp[s].pre) + 1, lastOp[s].end)>>
           /\ AllStored(FetchedBy(lastOp[s].calls[1]))
           /\ lastOp[s].result \in ReRead(lastOp[s])

\* C3: when the cached set of the range is not empty and its latest timestamp
\* is at or after end, a get_data_from_db or a sync_curveseries_data that is
\* not forced makes no adapter call, whatever the other request, the
\* upstream and the clock do during the call (the tables being there),
\* and get_data_from_db (and the handler, with 200) returns packets: the
\* cached ones, in an order by timestamp, when the call ran undisturbed.
C3_SufficientCacheNoFetch ==
    \A s \in Sessions :
        (Returned(lastOp[s]) /\ lastOp[s].op \in {"get", "history", "prefetch"}
            /\ ~lastOp[s].force /\ IsSufficient(lastOp[s]) /\ ~lastOp[s].dropped)
        => /\ lastOp[s].calls = <<>>
           /\ lastOp[s].op \in {"get", "history"} => lastOp[s].result # <<>>
           /\ (lastOp[s].op \in {"get", "history"} /\ lastOp[s].alone)
                => lastOp[s].result \in OrderByTimestamp(lastOp[s].pre)
           /\ lastOp[s].op = "history" => lastOp[s].exc = "200"

\* C3 witness: a sync found the cache sufficient and returned without a fetch.
C3_Witness ==
    \E s \in Sessions :
        /\ Settled(lastOp[s])
        /\ lastOp[s].op = "prefetch"
        /\ IsSufficient(lastOp[s])
        /\ lastOp[s].exc = ""
        /\ lastOp[s].client /\ reachable

\* C4: when the cached set of the range is empty and the service has its
\* adapter, get_data_from_db (source 'curveseries' or none) calls the adapter
\* once, for [start, end], stores every packet it got, and returns the range
\* as read after that (the database not failing and no one else writing
\* during the call).
C4_EmptyCacheFetchesAll ==
    \A s \in Sessions :
        (Settled(lastOp[s]) /\ IsGetOrSync(lastOp[s])
            /\ lastOp[s].source \in {"curveseries", ""} /\ lastOp[s].client
            /\ lastOp[s].fault = "none" /\ lastOp[s].pre = <<>>)
        => /\ lastOp[s].calls = <<AdapterCall(lastOp[s].start, lastOp[s].end)>>
           /\ AllStored(FetchedBy(lastOp[s].calls[1]))
           /\ lastOp[s].result \in ReRead(lastOp[s])

\* C4 witness: an empty cache, one fetch, and the packets fetched returned.
C4_Witness ==
    \E s \in Sessions :
        /\ Settled(lastOp[s])
        /\ lastOp[s].op = "get"
        /\ lastOp[s].fault = "none"
        /\ lastOp[s].pre = <<>>
        /\ Len(lastOp[s].calls) = 1
        /\ lastOp[s].result # <<>>

\* C5: a forced history request (the service having its adapter) asks the
\* adapter for the whole [start, end] whatever the cache holds, stores what it
\* gets, and answers with the range as read after that (the database not
\* failing and no one else writing during the request).
C5_ForceRefreshFetchesAll ==
    \A s \in Sessions :
        (Returned(lastOp[s]) /\ lastOp[s].op = "history" /\ lastOp[s].force
            /\ lastOp[s].client /\ lastOp[s].fault = "none")
        => /\ lastOp[s].calls # <<>>
           /\ \A i \in 1..Len(lastOp[s].calls) :
                lastOp[s].calls[i] = AdapterCall(lastOp[s].start, lastOp[s].end)
           /\ lastOp[s].exc = (IF lastOp[s].result = <<>> THEN "404" ELSE "200")
           /\ lastOp[s].alone
                => /\ \A i \in 1..Len(lastOp[s].calls) :
                        AllStored(FetchedBy(lastOp[s].calls[i]))
                   /\ lastOp[s].result \in ReRead(lastOp[s])

\* C5 witness: the cache was sufficient, the forced request fetched all the
\* same and answered with packets the cache did not hold.
C5_Witness ==
    \E s \in Sessions :
        /\ Settled(lastOp[s])
        /\ lastOp[s].op = "history" /\ lastOp[s].force /\ lastOp[s].fault = "none"
        /\ IsSufficient(lastOp[s])
        /\ Len(lastOp[s].calls) = 1
        /\ lastOp[s].result \notin OrderByTimestamp(lastOp[s].pre)

\* the adapter cannot be fetched from: the service has none, or the upstream
\* does not answer
FetchFails(rec) == ~rec.client \/ ~reachable

\* C6 (the claim as stated): forced or not, a history request whose fetch
\* fails while the cache holds packets of the range returns those packets.
C6_FetchFailureServesCache ==
    \A s \in Sessions :
        (Settled(lastOp[s]) /\ lastOp[s].op = "history" /\ FetchFails(lastOp[s])
            /\ lastOp[s].pre # <<>>)
        => lastOp[s].exc = "200" /\ lastOp[s].result \in OrderByTimestamp(lastOp[s].pre)

\* C7 (the claim as stated): a history request whose fetch fails while the
\* cache holds nothing of the range ends with an empty result reported as
\* 404, not as an internal error.
C7_FetchFailureNotFound ==
    \A s \in Sessions :
        (Settled(lastOp[s]) /\ lastOp[s].op = "history" /\ FetchFails(lastOp[s])
            /\ lastOp[s].fault = "none" /\ lastOp[s].pre = <<>>)
        => lastOp[s].exc = "404" /\ lastOp[s].result = <<>>

\* C8: when a get_data_from_db is called again with the same arguments after
\* the first call returned, and nothing else happened since the first began,
\* it returns the list the first returned and leaves as many rows; if the
\* first returned packets, the second makes no adapter call.
C8_RepeatedCallIdempotent ==
    \A s \in Sessions :
        (Settled(lastOp[s]) /\ lastOp[s].again /\ lastOp[s].op \in {"get", "history"}
            /\ lastOp[s].fault = "none")
        => /\ lastOp[s].result = lastOp[s].prevResult
           /\ Len(rows) = lastOp[s].prevRows
           /\ (lastOp[s].result # <<>> /\ ~lastOp[s].force) => lastOp[s].calls = <<>>

\* C8 witness: a call that returned two packets is made again; it returns them
\* again, without an adapter call, and the table has not grown.
C8_Witness ==
    \E s \in Sessions :
        /\ Settled(lastOp[s])
        /\ lastOp[s].again
        /\ lastOp[s].op = "get"
        /\ Len(lastOp[s].result) >= 2
        /\ lastOp[s].calls = <<>>
        /\ Len(rows) = lastOp[s].prevRows

\* C9 (the claim as stated): a sync that is not forced and finds cached
\* packets, the latest on day D, asks the adapter for a range that begins
\* after D and ends at end.
C9_TailBeginsAfterLatest ==
    \A s \in Sessions :
        (Settled(lastOp[s]) /\ lastOp[s].op = "prefetch" /\ lastOp[s].pre # <<>>
            /\ lastOp[s].calls # <<>>)
        => /\ DateOf(ParseCustomDate(lastOp[s].calls[1].s_str))
                > DateOf(MaxTimestamp(lastOp[s].pre))
           /\ lastOp[s].calls[1].e_str = FormatDate(lastOp[s].end)

\* what a caller can tell from an error: the exception, or the 500
Errors == {"NoClient", "TypeError", "StorageError", "PendingRollbackError", "500"}

\* C12 (the claim as stated): when the database fails in the store phase of
\* get_data_from_db (in bulk_insert or in update_last_sync), the caller gets
\* an error: an exception from get_data_from_db, a 500 from the handler.
C12_StorageFailureSurfaced ==
    \A s \in Sessions :
        (Returned(lastOp[s]) /\ lastOp[s].op \in {"get", "history"}
            /\ lastOp[s].fault \in {"bulk_insert", "update_last_sync"})
        => lastOp[s].exc \in Errors

\* a series without a row
EmptySeries == [d \in Days |-> 0]

\* C13 (the claim as stated): a sync whose fetch found the upstream
\* unreachable ends otherwise than one whose fetch got no rows from a
\* reachable upstream: it raises, or its fetch returns something else.
C13_UnreachableNotEmpty ==
    \A s \in Sessions :
        (Settled(lastOp[s]) /\ lastOp[s].op = "prefetch" /\ ~reachable
            /\ lastOp[s].calls # <<>>)
        => \/ lastOp[s].exc \in Errors
           \/ FetchRows(upstream, reachable, Equation, lastOp[s].calls[1].s_str,
                        lastOp[s].calls[1].e_str).packets
              # FetchRows(EmptySeries, TRUE, Equation, lastOp[s].calls[1].s_str,
                          lastOp[s].calls[1].e_str).packets

\* a fetch-and-store cycle succeeded in the call: bulk_insert has committed
\* the packets fetched and returned their number, and the database has not
\* failed since
CycleSucceeded(rec) ==
    /\ rec.op \in {"prefetch", "get", "history"}
    /\ rec.count > 0
    /\ rec.fault = "none"

\* C19 (the claim as stated): after a call in which a fetch-and-store cycle
\* of sync_curveseries_data succeeded, the last_sync of data source
\* 'curveseries' is the time of the call.
C19_SuccessfulCycleUpdatesLastSync ==
    \A s \in Sessions :
        (Settled(lastOp[s]) /\ CycleSucceeded(lastOp[s]))
        => lastSync.exists /\ lastSync.last_sync = now

\* every packet has a row of its identity in the table
IdentitiesStored(packets) ==
    \A i \in 1..Len(packets) : \E j \in 1..Len(rows) : SameIdentity(rows[j], packets[i])

\* C20: the last_sync of the data_sources row changes only in the COMMIT of
\* update_last_sync of a call in which a fetch-and-store cycle has
\* succeeded, and then to the time that call read from the clock after its
\* store: a call that finds the cache sufficient, gets no rows, has no
\* adapter or fails while storing leaves it as it was, and so does every
\* step that is no call (drop_tables removes the row with its table).
C20_LastSyncOnlyAfterSuccess ==
    [][(lastSync'.exists /\ lastSync'.last_sync # lastSync.last_sync)
        => \E s \in Sessions :
              /\ lastOp[s].pc = "update_commit" /\ lastOp'[s].pc # "update_commit"
              /\ lastOp[s].flushed
              /\ CycleSucceeded(lastOp[s])
              /\ lastOp[s].packets # <<>>
              /\ IdentitiesStored(lastOp[s].packets)
              /\ lastSync'.last_sync = lastOp[s].sync_time]_vars

\* C20 witness: last_sync was set by an earlier cycle; the clock has moved
\* and a call that fetched, and whose store failed or had nothing to store,
\* has left it.
C20_Witness ==
    /\ lastSync.last_sync # 0
    /\ lastSync.last_sync < now
    /\ \E s \in Sessions :
          /\ Returned(lastOp[s])
          /\ lastOp[s].start > lastSync.last_sync - SecondsPerDay
          /\ lastOp[s].end > lastSync.last_sync
          /\ lastOp[s].calls # <<>>
          /\ ~CycleSucceeded(lastOp[s])

\* C21 (the claim as stated): while getCSData is in progress the session has
\* no transaction open.
C21_NoTransactionAcrossFetch ==
    \A s \in Sessions : lastOp[s].pc = "fetching" => ~lastOp[s].txn

\* a call of get_data_from_db on session s has not returned
GetRunning(s) == lastOp[s].op = "get" /\ lastOp[s].pc # "done"

\* C22 (the claim as stated): every call of get_data_from_db returns, also
\* when the adapter never answers the fetch.
C22_GetOrSyncReturns == \A s \in Sessions : GetRunning(s) ~> ~GetRunning(s)

\* C23: when the probe of verify_connection raises, verify_connection
\* returns False and raises nothing; it returns True only after the probe
\* returned.
C23_VerifyConnectionTotal ==
    \A s \in Sessions :
        (lastOp[s].op = "verify" /\ lastOp[s].pc = "done")
        => /\ lastOp[s].exc = ""
           /\ lastOp[s].adapter = "raises" => ~lastOp[s].ok
           /\ lastOp[s].ok => lastOp[s].adapter = "answers"

\* C23 witness: CurveSeries Desktop is not running, the probe raised, and
\* verify_connection returned False.
C23_Witness ==
    \E s \in Sessions :
        /\ lastOp[s].op = "verify" /\ lastOp[s].pc = "done"
        /\ ~reachable
        /\ lastOp[s].adapter = "raises"
        /\ ~lastOp[s].ok
        /\ lastOp[s].exc = ""

\* C25: no step of a call loses a stored packet: every identity the table
\* holds before a step of a sync, a get_data_from_db or a prefetch, each with
\* its upserts and commits, alone or beside another call, is held after it;
\* so is it for every other step but drop_tables.
C25_NoIdentityLost ==
    [][(tables /\ ~tables')
       \/ \A i \in 1..Len(rows) : \E j \in 1..Len(rows') : SameIdentity(rows'[j], rows[i])]_vars

\* C25 witness: a call that found packets in the cache for its range fetched
\* and stored, and the table holds the cached identities and more.
C25_Witness ==
    \E s \in Sessions :
        /\ Settled(lastOp[s])
        /\ lastOp[s].op \in {"history", "get", "prefetch"}
        /\ lastOp[s].exc = ""
        /\ lastOp[s].calls # <<>>
        /\ lastOp[s].pre # <<>>
        /\ Len(rows) > Len(lastOp[s].pre)
        /\ \A k \in 1..Len(lastOp[s].pre) :
                \E j \in 1..Len(rows) : SameIdentity(rows[j], lastOp[s].pre[k])

\* the step in which fetch_history hands no packet to the
\* sync_curveseries_data of session s
FetchGaveNothing(s) ==
    /\ lastOp[s].pc = "fetching"
    /\ lastOp'[s].pc \notin {"fetching", "store"}

\* C31: when fetch_history gives no packet, sync_curveseries_data returns 0
\* at once, and neither that step nor any other step of a call that holds no
\* fetched packet changes the stored packets or the data_sources row (which
\* but for drop_tables only steps of calls change).
C31_EmptyFetchWritesNothing ==
    [][/\ \A s \in Sessions :
            FetchGaveNothing(s)
            => /\ lastOp'[s].count = 0
               /\ lastOp'[s].pc = (IF lastOp[s].op = "get" THEN "reread" ELSE "done")
               /\ rows' = rows /\ lastSync' = lastSync
       /\ (tables' = tables /\ (rows' # rows \/ lastSync' # lastSync))
          => \E s \in Sessions :
                /\ lastOp[s].pc \in {"store", "update_commit"}
                /\ lastOp[s].packets # <<>>
                /\ lastOp'[s] # lastOp[s]]_vars

\* C31 witness: the table holds packets, the data_sources row exists and was
\* never synced by this call, the adapter answered a sync with no rows, and
\* the sync has returned 0.
C31_Witness ==
    \E s \in Sessions :
        /\ lastOp[s].op = "prefetch" /\ lastOp[s].pc = "done"
        /\ lastOp[s].adapter = "answers"
        /\ lastOp[s].packets = <<>>
        /\ lastOp[s].count = 0
        /\ rows # <<>>
        /\ lastSync.exists

\* the call stands in its sync or after it
Synced(rec) ==
    rec.calls # <<>>
    \/ rec.pc \in {"existing", "fetching", "store", "update", "update_flush",
                  "update_commit", "reread"}

\* C33: get_data_from_db calls the adapter only when its first read is
\* empty and the source is 'curveseries' or not given; when the first read
\* is not empty or another source is asked for, it returns the first read,
\* calls no adapter and never comes to a statement that writes.
C33_GetSyncsOnlyEmptyCurveseries ==
    \A s \in Sessions :
        lastOp[s].op = "get"
        => /\ Synced(lastOp[s])
                => (lastOp[s].first = <<>> /\ lastOp[s].source \in {"curveseries", ""})
           /\ (Returned(lastOp[s])
                /\ (lastOp[s].first # <<>> \/ lastOp[s].source \notin {"curveseries", ""}))
                => /\ lastOp[s].calls = <<>>
                   /\ lastOp[s].result = lastOp[s].first

\* C33 witness: the upstream has data and can be reached, the cache holds
\* nothing for the range, and get_data_from_db asked for source 'binance'
\* has returned the empty list without a call to the adapter.
C33_Witness ==
    \E s \in Sessions :
        /\ Settled(lastOp[s])
        /\ lastOp[s].op = "get"
        /\ lastOp[s].source = "binance"
        /\ lastOp[s].calls = <<>>
        /\ lastOp[s].result = <<>>
        /\ reachable /\ lastOp[s].client
        /\ \E d \in Days : /\ upstream[d] # 0
                           /\ lastOp[s].start <= DayTime(d, 0)
                           /\ DayTime(d, 0) <= lastOp[s].end

\* C34 (the claim as stated): the loop takes the tickers in the order of the
\* list and comes to its end, and the sync of a ticker raises only when the
\* database fails during that sync, whatever happened to the tickers before
\* it (the tables being there throughout the prefetch).
C34_PrefetchIsolatesFailures ==
    \A s \in Sessions :
        (lastOp[s].op = "prefetch" /\ Returned(lastOp[s]) /\ ~lastOp[s].dropped)
        => /\ Len(lastOp[s].log) = Len(lastOp[s].tickers)
           /\ \A i \in 1..Len(lastOp[s].log) :
                /\ lastOp[s].log[i].ticker = lastOp[s].tickers[i]
                /\ ~lastOp[s].log[i].failed => lastOp[s].log[i].exc = ""


============================================================================
